---- MODULE Spec2Model ----
(***************************************************************************)
(* The Grist table client (fetchTable, addRecords, updateRecords,          *)
(* deleteRecords, syncTable) of example-invoice-sync, the remote table it  *)
(* talks to, the server's handlers onSync and getCopyInfo, which copy an   *)
(* invoice and its items from a source to a destination document, alone    *)
(* or two at once, and the widget that calls them.                         *)
(*                                                                         *)
(* A JavaScript value is a tagged record [t, v]; an object (a Record of    *)
(* the data model) is a sequence of properties [c, v] in insertion order,  *)
(* so that Object.keys, pick and sort are computed as JavaScript computes  *)
(* them.                                                                   *)
(***************************************************************************)
EXTENDS Integers, Sequences, FiniteSets, TLC

\* ------------------------------------------------------------------ bounds
\* Largest number of source records passed to one call.
MaxRecords == 2
\* Largest number of rows the remote table holds before the first call.
MaxRows == 2
\* Largest chunkSize option the client is constructed with.
MaxChunk == 2
\* Number of times the caller runs syncTable with the same input.
MaxRuns == 2
\* Largest number of records passed to one addRecords or updateRecords call.
MaxBatch == 3
\* Largest number of invoices of a document, and largest Invoice_ID.
MaxInvoices == 2
\* Largest number of items of a document before the first request.
MaxItems == 2
\* Largest number of messages and clicks the widget gets.
MaxEvents == 3

\* ------------------------------------------------------- JavaScript values
Num(n) == [t |-> "number", v |-> n]
Str(n) == [t |-> "string", v |-> n]
Null == [t |-> "null", v |-> 0]
Undef == [t |-> "undefined", v |-> 0]

\* typeof x
TypeOf(x) == IF x.t = "null" THEN "object" ELSE x.t

\* !x is false: Str(n) stands for a non-empty string.
Truthy(x) == ~(x.t \in {"null", "undefined"} \/ (x.t = "number" /\ x.v = 0))

\* JSON.stringify writes an undefined array element as null.
JsonVal(x) == IF x = Undef THEN Null ELSE x

\* --------------------------------------------------------------- sequences
Range(s) == {s[i] : i \in 1..Len(s)}

RECURSIVE Concat(_)
Concat(ss) == IF ss = <<>> THEN <<>> ELSE Head(ss) \o Concat(Tail(ss))

Min(a, b) == IF a < b THEN a ELSE b

\* Sequences over S of length at most n.
SeqsUpTo(S, n) == UNION {[1..k -> S] : k \in 0..n}

\* ----------------------------------------------------------------- objects
\* Object.keys(rec)
Keys(rec) == [i \in 1..Len(rec) |-> rec[i].c]

Has(rec, c) == \E i \in 1..Len(rec) : rec[i].c = c

\* rec[c]
Get(rec, c) ==
  IF Has(rec, c) THEN rec[CHOOSE i \in 1..Len(rec) : rec[i].c = c].v ELSE Undef

\* rec[c] = v: an existing property keeps its place, a new one goes last.
SetProp(rec, c, val) ==
  IF Has(rec, c)
    THEN [i \in 1..Len(rec) |-> IF rec[i].c = c THEN [c |-> c, v |-> val] ELSE rec[i]]
    ELSE Append(rec, [c |-> c, v |-> val])

\* lodash pick(rec, cols): the properties of rec named in cols, in cols' order.
Pick(rec, cols) ==
  LET present == SelectSeq(cols, LAMBDA c : Has(rec, c))
  IN  [i \in 1..Len(present) |-> [c |-> present[i], v |-> Get(rec, present[i])]]

\* The record as a mapping, its property order forgotten.
AsSet(rec) == Range(rec)

\* Code-unit order of the column identifiers, as Array.prototype.sort uses.
ColOrder ==
  <<"A", "B", "CustomerJson", "Date", "Description", "Invoice", "Invoice_ID",
    "InvoicerDocId", "K", "Last_Sync", "Quantity", "Unit_Price", "id">>

\* keys.sort() for distinct keys.
SortKeys(keys) == SelectSeq(ColOrder, LAMBDA c : c \in Range(keys))

\* lodash chunk(s, size)
RECURSIVE Chunk(_, _)
Chunk(s, size) ==
  IF s = <<>> THEN <<>>
  ELSE LET n == Min(size, Len(s))
       IN  <<SubSeq(s, 1, n)>> \o Chunk(SubSeq(s, n + 1, Len(s)), size)

\* ---------------------------------------------------------------- Map
\* A JavaScript Map: entries [k, v] in insertion order.
MapHas(m, k) == \E i \in 1..Len(m) : m[i].k = k

MapGet(m, k) == m[CHOOSE i \in 1..Len(m) : m[i].k = k].v

MapSet(m, k, val) ==
  IF MapHas(m, k)
    THEN [i \in 1..Len(m) |-> IF m[i].k = k THEN [k |-> k, v |-> val] ELSE m[i]]
    ELSE Append(m, [k |-> k, v |-> val])

\* ------------------------------------------------------------ table data
\* makeTableData(records): column-oriented data, one column per key that any
\* record has, in order of first appearance; a record without the key gives
\* undefined.
RECURSIVE AllKeys(_, _)
AllKeys(records, acc) ==
  IF records = <<>> THEN acc
  ELSE AllKeys(Tail(records),
               acc \o SelectSeq(Keys(Head(records)), LAMBDA c : c \notin Range(acc)))

makeTableData(records) ==
  LET allKeys == AllKeys(records, <<>>)
  IN  [j \in 1..Len(allKeys) |->
         [c |-> allKeys[j],
          v |-> [i \in 1..Len(records) |-> Get(records[i], allKeys[j])]]]

\* Number of rows of column-oriented data.
NumRows(data) == IF data = <<>> THEN 0 ELSE Len(data[1].v)

\* Row i of column-oriented data: mapValues(data, col => col[i]).
RowOf(data, i) == [j \in 1..Len(data) |-> [c |-> data[j].c, v |-> data[j].v[i]]]

\* As filterMatches, every record taken to match.
filterMatchesAll(rec, filters) == TRUE

\* filterMatches(rec, filters)
filterMatches(rec, filters) ==
  \A i \in 1..Len(filters) : Get(rec, filters[i].c) \in Range(filters[i].v)

\* ------------------------------------------------------- the remote table
\* Columns of the remote table, in schema order; every row has all of them
\* and a fresh row holds null in a column the request does not carry.
TableCols == <<"K", "A", "B">>

WireCols == <<"id">> \o TableCols

\* GET <table>/data[?filter=...] of a table with the columns cols: the rows
\* matching the filter, in table order, column-oriented.
RemoteGetIn(cols, tbl, query) ==
  LET rows == IF query.given
                THEN SelectSeq(tbl, LAMBDA r :
                       \A i \in 1..Len(query.cols) :
                         query.cols[i].c \in DOMAIN r
                         /\ r[query.cols[i].c] \in Range(query.cols[i].v))
                ELSE tbl
  IN  [j \in 1..Len(cols) |->
         [c |-> cols[j], v |-> [i \in 1..Len(rows) |-> rows[i][cols[j]]]]]

RemoteGet(tbl, query) == RemoteGetIn(WireCols, tbl, query)

\* POST <table>/data: one new row per array position, ids assigned in order.
RemotePostIn(cols, tbl, firstId, data) ==
  tbl \o [i \in 1..NumRows(data) |->
            [c \in Range(cols) |->
               IF c = "id" THEN Num(firstId + i - 1)
               ELSE JsonVal(Get(RowOf(data, i), c))]]

RemotePost(tbl, firstId, data) == RemotePostIn(WireCols, tbl, firstId, data)

\* POST apply with [['BulkRemoveRecord', <table>, ids]], the body held as the
\* list of its actions [c |-> name, v |-> ids]: the rows of these ids go.
RemoteApply(tbl, data) ==
  SelectSeq(tbl, LAMBDA r : r.id \notin Range(data[1].v))

\* The ids the POST answers with.
RemotePostIds(firstId, data) == [i \in 1..NumRows(data) |-> Num(firstId + i - 1)]

\* PATCH <table>/data: row data.id[i] takes the other columns' values at i,
\* positions applied in order.
RECURSIVE RemotePatchFrom(_, _, _)
RemotePatchFrom(tbl, data, i) ==
  IF i > NumRows(data) THEN tbl
  ELSE LET row == RowOf(data, i)
           next == [n \in 1..Len(tbl) |->
                      IF tbl[n].id = Get(row, "id")
                        THEN [c \in DOMAIN tbl[n] |->
                                IF c # "id" /\ Has(row, c) THEN JsonVal(Get(row, c))
                                ELSE tbl[n][c]]
                        ELSE tbl[n]]
       IN  RemotePatchFrom(next, data, i + 1)

RemotePatch(tbl, data) == RemotePatchFrom(tbl, data, 1)

\* ------------------------------------------------------------ the client
\* A transmitted request.
Request(method, path, query, data) ==
  [method |-> method, path |-> path, query |-> query, data |-> data]

NoFilters == [given |-> FALSE, cols |-> <<>>]

Filters(cols) == [given |-> TRUE, cols |-> cols]

\* fetchTable: the column-oriented answer as a list of records.
fetchTable(data) ==
  [i \in 1..Len(Get(data, "id")) |-> RowOf(data, i)]

\* As FilterColsOk, the columns looked up among the table's, not the key's.
FilterColsAreColumns(filters, keyColIds) ==
  \A i \in 1..Len(filters.cols) : filters.cols[i].c \in Range(TableCols)

\* syncTable's check of its filters option.
FilterColsOk(filters, keyColIds) ==
  \A i \in 1..Len(filters.cols) : filters.cols[i].c \in Range(keyColIds)

\* As KeyOf, a missing column kept undefined and not written as null.
KeyOfRaw(rec, keyColIds) ==
  [i \in 1..Len(keyColIds) |-> Get(rec, keyColIds[i])]

\* As KeyOf, of the first key column only.
KeyOfFirst(rec, keyColIds) == <<JsonVal(Get(rec, keyColIds[1]))>>

\* JSON.stringify(keyColIds.map((colId) => rec[colId])): two keys are the
\* same string exactly when these sequences are equal.
KeyOf(rec, keyColIds) ==
  [i \in 1..Len(keyColIds) |-> JsonVal(Get(rec, keyColIds[i]))]

\* As GristRows, a fetched record not put in the place of an earlier one.
RECURSIVE GristRowsFirstWins(_, _, _)
GristRowsFirstWins(fetched, keyColIds, acc) ==
  IF fetched = <<>> THEN acc
  ELSE GristRowsFirstWins(Tail(fetched), keyColIds,
         IF MapHas(acc, KeyOf(Head(fetched), keyColIds)) THEN acc
         ELSE MapSet(acc, KeyOf(Head(fetched), keyColIds), Head(fetched)))

\* The gristRows map of syncTable.
RECURSIVE GristRows(_, _, _)
GristRows(fetched, keyColIds, acc) ==
  IF fetched = <<>> THEN acc
  ELSE GristRows(Tail(fetched), keyColIds,
                 MapSet(acc, KeyOf(Head(fetched), keyColIds), Head(fetched)))

\* As ChangedKeys, every column of newRec taken as changed.
ChangedKeysAll(newRec, oldRec) == Keys(newRec)

\* The columns of newRec whose value is not that of oldRec.
ChangedKeys(newRec, oldRec) ==
  SelectSeq(Keys(newRec), LAMBDA c : Get(newRec, c) # Get(oldRec, c))

\* As MakeUpdate, the whole new record sent.
MakeUpdateFull(newRec, oldRec) == SetProp(newRec, "id", Get(oldRec, "id"))

\* The update syncTable builds for newRec matched with oldRec.
MakeUpdate(newRec, oldRec) ==
  SetProp(Pick(newRec, ChangedKeys(newRec, oldRec)), "id", Get(oldRec, "id"))

\* As MakeAddition, with an empty id added to the record.
MakeAdditionWithId(newRec) == SetProp(newRec, "id", Null)

\* The addition syncTable enqueues for a new record without a match.
MakeAddition(newRec) == newRec

\* As SyncLoop, the entry of a new record put in the place of the entries
\* that earlier new records of its key have.
RECURSIVE SyncLoopLastWins(_, _, _, _, _)
SyncLoopLastWins(records, gristRows, keyColIds, filters, acc) ==
  IF records = <<>> THEN acc
  ELSE
    LET newRec == Head(records)
        key == KeyOf(newRec, keyColIds)
        others(list) == SelectSeq(list, LAMBDA u :
                          Get(u, "id") # Get(MapGet(gristRows, key), "id"))
        step ==
          IF filters.given /\ ~filterMatches(newRec, filters.cols)
            THEN [acc EXCEPT !.filteredOut = @ + 1]
          ELSE IF MapHas(gristRows, key)
            THEN IF ChangedKeys(newRec, MapGet(gristRows, key)) # <<>>
                   THEN [acc EXCEPT !.dataCount = @ + 1,
                           !.updateList =
                              Append(others(@), MakeUpdate(newRec, MapGet(gristRows, key)))]
                   ELSE [acc EXCEPT !.dataCount = @ + 1, !.updateList = others(@)]
            ELSE [acc EXCEPT !.dataCount = @ + 1,
                    !.addList = Append(SelectSeq(@, LAMBDA a : KeyOf(a, keyColIds) # key),
                                       MakeAddition(newRec))]
    IN  SyncLoopLastWins(Tail(records), gristRows, keyColIds, filters, step)

\* The loop of syncTable over the new records.
RECURSIVE SyncLoop(_, _, _, _, _)
SyncLoop(records, gristRows, keyColIds, filters, acc) ==
  IF records = <<>> THEN acc
  ELSE
    LET newRec == Head(records)
        key == KeyOf(newRec, keyColIds)
        step ==
          IF filters.given /\ ~filterMatches(newRec, filters.cols)
            THEN [acc EXCEPT !.filteredOut = @ + 1]
          ELSE IF MapHas(gristRows, key)
            THEN IF ChangedKeys(newRec, MapGet(gristRows, key)) # <<>>
                   THEN [acc EXCEPT !.dataCount = @ + 1,
                           !.updateList =
                              Append(@, MakeUpdate(newRec, MapGet(gristRows, key)))]
                   ELSE [acc EXCEPT !.dataCount = @ + 1]
            ELSE [acc EXCEPT !.dataCount = @ + 1, !.addList = Append(@, MakeAddition(newRec))]
    IN  SyncLoop(Tail(records), gristRows, keyColIds, filters, step)

\* The plan syncTable computes from the fetched records.
SyncPlan(fetched, records, keyColIds, filters) ==
  SyncLoop(records, GristRows(fetched, keyColIds, <<>>), keyColIds, filters,
           [updateList |-> <<>>, addList |-> <<>>, dataCount |-> 0, filteredOut |-> 0])

\* As ValidId, without the typeof test.
ValidIdTruthy(rec) == Truthy(Get(rec, "id"))

\* updateRecords' check of one record's id.
ValidId(rec) == Truthy(Get(rec, "id")) /\ TypeOf(Get(rec, "id")) = "number"

\* As GroupKey, the keys left in property order.
GroupKeyUnsorted(rec) == Keys(rec)

\* The key updateRecords groups by.
GroupKey(rec) == SortKeys(Keys(rec))

\* The first loop of updateRecords: the groups, or the error it throws.
RECURSIVE GroupLoop(_, _)
GroupLoop(records, groups) ==
  IF records = <<>> THEN [err |-> FALSE, groups |-> groups]
  ELSE IF ~ValidId(Head(records)) THEN [err |-> TRUE, groups |-> groups]
  ELSE LET key == GroupKey(Head(records))
           group == IF MapHas(groups, key) THEN MapGet(groups, key) ELSE <<>>
       IN  GroupLoop(Tail(records), MapSet(groups, key, Append(group, Head(records))))

\* As ChunkData, the records never split.
ChunkDataWhole(records, size) == <<makeTableData(records)>>

\* The request bodies of a list of records, chunkSize at most per request.
ChunkData(records, size) ==
  LET chunks == Chunk(records, size)
  IN  [i \in 1..Len(chunks) |-> makeTableData(chunks[i])]

\* The callData of updateRecords: every group chunked, in group order.
UpdateCallData(groups, size) ==
  Concat([i \in 1..Len(groups) |-> ChunkData(groups[i].v, size)])

\* ------------------------------------------------------------------ state
VARIABLES
  table,      \* the remote table: its rows in table order
  nextId,     \* the id the remote gives the next new row
  chunkSize,  \* the client's _chunkSize
  dryrun,     \* the client's _dryrun
  op,         \* the method the caller called: "sync", "update", "add" or
              \* "delete"
  records,    \* its records argument
  recordIds,  \* deleteRecords' recordIds argument
  keyColIds,  \* syncTable's keyColIds argument
  options,    \* syncTable's options argument
  pc,         \* where the call is: "idle", awaiting the answer of its
              \* "fetch", "update", "add" or "delete" request, "done" or
              \* "failed"
  inflight,   \* the requests sent and not yet answered
  queue,      \* callData from the request in flight on
  gristRows,  \* syncTable's gristRows
  updateList, \* syncTable's updateList
  addList,    \* syncTable's addList
  results,    \* addRecords' results
  error,      \* what the call threw, "none" if nothing
  sent,       \* the requests of this call, in sending order
  nOk,        \* how many of them were answered with what the call expects
  run,        \* how many times the caller has called
  prev,       \* the caller's previous call, as it ended
  table0,     \* the remote table before the first call
  srcDoc,     \* the source document: its tables Invoices and Items
  destDoc,    \* the destination document: its tables Invoices and Items
  destNextId, \* the id the destination gives the next new row of each table
  destDoc0,   \* the destination document before the first request
  now,        \* Date.now() / 1000
  h,          \* the server's handler of a request: its local variables, the
              \* request it awaits and how the request of the widget was answered
  other,      \* a second handler of the server, suspended at its await while
              \* h takes its step
  w           \* the widget: invoiceRow, data, the sync button and the requests
              \* it awaits the answers of

orchVars == <<srcDoc, destDoc, destNextId, destDoc0, now, h, other, w>>

vars == <<table, nextId, chunkSize, dryrun, op, records, recordIds, keyColIds,
          options, pc, inflight, queue, gristRows, updateList, addList, results,
          error, sent, nOk, run, prev, table0, orchVars>>

remoteVars == <<table, nextId>>

configVars == <<chunkSize, dryrun>>

argVars == <<op, records, recordIds, keyColIds, options>>

NoPrev ==
  [pc |-> "none", error |-> "none", updateList |-> <<>>, addList |-> <<>>,
   sent |-> <<>>, nOk |-> 0]

\* A document without rows.
NoRows == [Invoices |-> <<>>, Items |-> <<>>]

\* No request of the widget has reached the server.
NoHandler ==
  [op |-> "none", pc |-> "idle", invoiceId |-> Null, sourceInvoice |-> <<>>,
   sourceItems |-> <<>>, destInvoice |-> <<>>, itemsCopy |-> <<>>,
   tbl |-> "none", records |-> <<>>, keys |-> <<>>, filters |-> NoFilters,
   queue |-> <<>>, updateList |-> <<>>,
   addList |-> <<>>, results |-> NoRows, inflight |-> {}, sent |-> <<>>,
   error |-> "none",
   response |-> [by |-> "none", status |-> 0, body |-> "none"]]

\* The widget as its script starts: no row selected, nothing awaited. A null
\* invoiceRow, data.invoice or data.copy is held as the empty sequence.
NoWidget ==
  [invoiceRow |-> <<>>, invoice |-> <<>>, copy |-> <<>>, message |-> "Loading...",
   syncBtn |-> [disabled |-> FALSE, listener |-> FALSE],
   tableFetches |-> <<>>, infoFetches |-> <<>>, syncFetches |-> <<>>, events |-> 0]

\* An object over the columns cols (in that order) from an assignment f of a
\* value, or undefined for an absent property, to each column.
ToObject(f, cols) ==
  LET present == SelectSeq(cols, LAMBDA c : f[c] # Undef)
  IN  [i \in 1..Len(present) |-> [c |-> present[i], v |-> f[present[i]]]]

\* Values a new record may carry in a column; absent is allowed too.
SourceVals(c) ==
  IF c = "K" THEN {Num(1), Num(2)}
  ELSE {Num(1)}

\* Values a row of the remote table may hold in a column before the first call.
RowVals(c) ==
  IF c = "K" THEN {Null, Num(1)}
  ELSE IF c = "A" THEN {Num(1), Num(2)}
  ELSE {Null}

\* The records syncTable is called with: columns of the table, not all absent.
SourceRecords ==
  {ToObject(f, TableCols) :
     f \in {g \in [Range(TableCols) -> {Undef, Null, Num(1), Num(2)}] :
              \A c \in Range(TableCols) : g[c] \in SourceVals(c) \cup {Undef}}}
  \ {<<>>}

\* The remote table before the first call: rows with ids 1, 2, ... in order.
InitRows ==
  {g \in [Range(TableCols) -> {Null, Num(1), Num(2)}] :
     \A c \in Range(TableCols) : g[c] \in RowVals(c)}

WithId(g, id) == [c \in Range(WireCols) |-> IF c = "id" THEN Num(id) ELSE g[c]]

InitTables ==
  {[i \in 1..Len(t) |-> WithId(t[i], i)] : t \in SeqsUpTo(InitRows, MaxRows)}

KeyColLists == {<<"K">>, <<"K", "A">>}

FilterOptions ==
  {NoFilters,
   Filters(<<[c |-> "K", v |-> <<Num(1)>>]>>),
   Filters(<<[c |-> "A", v |-> <<Num(1)>>]>>)}

\* No method of the client has been called.
NoCall ==
  /\ op = "none"
  /\ records = <<>>
  /\ recordIds = <<>>
  /\ keyColIds = <<>>
  /\ options = [filters |-> NoFilters]
  /\ pc = "idle"
  /\ inflight = {}
  /\ queue = <<>>
  /\ gristRows = <<>>
  /\ updateList = <<>>
  /\ addList = <<>>
  /\ results = <<>>
  /\ error = "none"
  /\ sent = <<>>
  /\ nOk = 0
  /\ run = 0
  /\ prev = NoPrev

\* The server does not run.
NoServer ==
  /\ srcDoc = NoRows
  /\ destDoc = NoRows
  /\ destNextId = [Invoices |-> 1, Items |-> 1]
  /\ destDoc0 = NoRows
  /\ now = 1
  /\ h = NoHandler
  /\ other = NoHandler
  /\ w = NoWidget

\* The remote table and a client constructed with the dryrun option flag.
InitClient(flag) ==
  /\ table \in InitTables
  /\ nextId = Len(table) + 1
  /\ chunkSize \in 1..MaxChunk
  /\ dryrun = flag
  /\ NoCall
  /\ table0 = table
  /\ NoServer

\* A client constructed without the dryrun option.
Init == InitClient(FALSE)

\* ------------------------------------------------------------ control flow
\* The call goes on to nextPc with callData nextQueue: awaiting an update or
\* an add it has sent the request of the first element of nextQueue.
GoOn(nextPc, nextQueue, err, log) ==
  /\ pc' = nextPc
  /\ queue' = nextQueue
  /\ error' = err
  /\ IF nextPc \in {"update", "add", "delete"}
       THEN LET req == Request(IF nextPc = "update" THEN "PATCH" ELSE "POST",
                               IF nextPc = "delete" THEN "apply" ELSE "data",
                               NoFilters, Head(nextQueue))
            IN  inflight' = {req} /\ sent' = Append(log, req)
       ELSE inflight' = {} /\ sent' = log

\* As Transmits, the dry-run flag ignored.
TransmitsAll(method) == TRUE

\* _call transmits the request: a dry-run client only its GETs; for the
\* others _call returns at once, with undefined.
Transmits(method) == ~(dryrun /\ method # "GET")

\* addRecords(recs) up to its first await, or its return.
AddStart(recs, size) ==
  IF recs = <<>> \/ ~Transmits("POST")
    THEN [pc |-> "done", queue |-> <<>>, error |-> "none"]
  ELSE [pc |-> "add", queue |-> ChunkData(recs, size), error |-> "none"]

\* As DeleteCallData, one request for the ids whatever their number.
DeleteCallDataWhole(ids, size) == <<<<[c |-> "BulkRemoveRecord", v |-> ids]>>>>

\* The request bodies of deleteRecords: one BulkRemoveRecord per chunk of ids.
DeleteCallData(ids, size) ==
  LET chunks == Chunk(ids, size)
  IN  [i \in 1..Len(chunks) |-> <<[c |-> "BulkRemoveRecord", v |-> chunks[i]]>>]

\* deleteRecords(ids) up to its first await, or its return.
DeleteStart(ids, size) ==
  IF DeleteCallData(ids, size) = <<>> \/ ~Transmits("POST")
    THEN [pc |-> "done", queue |-> <<>>, error |-> "none"]
  ELSE [pc |-> "delete", queue |-> DeleteCallData(ids, size), error |-> "none"]

\* What follows the return of updateRecords: in syncTable, addRecords(adds).
AfterUpdate(theOp, adds, size) ==
  IF theOp = "sync" THEN AddStart(adds, size)
  ELSE [pc |-> "done", queue |-> <<>>, error |-> "none"]

\* As UpdateStart, the updates left out.
UpdateStartSkipped(theOp, recs, adds, size) == AfterUpdate(theOp, adds, size)

\* updateRecords(recs) up to its first await, its throw, or its return.
UpdateStart(theOp, recs, adds, size) ==
  LET g == GroupLoop(recs, <<>>)
      callData == UpdateCallData(g.groups, size)
  IN  IF g.err THEN [pc |-> "failed", queue |-> <<>>, error |-> "id"]
      ELSE IF callData # <<>> /\ Transmits("PATCH")
        THEN [pc |-> "update", queue |-> callData, error |-> "none"]
      ELSE AfterUpdate(theOp, adds, size)

\* syncTable(records, keyColIds, options) up to its first await or its throw.
SyncStart(recs, keys, opts) ==
  /\ op' = "sync"
  /\ records' = recs
  /\ keyColIds' = keys
  /\ options' = opts
  /\ run' = run + 1
  /\ gristRows' = <<>>
  /\ updateList' = <<>>
  /\ addList' = <<>>
  /\ results' = <<>>
  /\ nOk' = 0
  /\ IF opts.filters.given /\ ~FilterColsOk(opts.filters, keys)
       THEN /\ pc' = "failed"
            /\ error' = "filterCols"
            /\ inflight' = {}
            /\ sent' = <<>>
       ELSE IF ~Transmits("GET")
       THEN /\ pc' = "failed"
            /\ error' = "badResponse"
            /\ inflight' = {}
            /\ sent' = <<>>
       ELSE LET req == Request("GET", "data", opts.filters, <<>>)
            IN  /\ pc' = "fetch"
                /\ error' = "none"
                /\ inflight' = {req}
                /\ sent' = <<req>>
  /\ queue' = <<>>
  /\ UNCHANGED <<remoteVars, configVars, recordIds, table0, orchVars>>

\* ---------------------------------------------------------------- actions
\* The caller calls syncTable.
SyncTable ==
  /\ pc = "idle"
  /\ \E recs \in SeqsUpTo(SourceRecords, MaxRecords), keys \in KeyColLists,
        f \in FilterOptions :
       SyncStart(recs, keys, [filters |-> f])
  /\ prev' = prev

\* The caller calls syncTable again with the same arguments, after the
\* previous call has returned, or has thrown at a request that followed the
\* fetch (a call that threw earlier has done nothing to start again from).
Rerun ==
  /\ op = "sync"
  /\ pc = "done" \/ (pc = "failed" /\ error = "remote" /\ nOk >= 1)
  /\ run < MaxRuns
  /\ prev' = [pc |-> pc, error |-> error, updateList |-> updateList,
              addList |-> addList, sent |-> sent, nOk |-> nOk]
  /\ SyncStart(records, keyColIds, options)

\* The remote answers the fetch of syncTable: syncTable computes its plan and
\* calls updateRecords, then addRecords, up to the first request they send.
FetchReply ==
  /\ pc = "fetch"
  /\ \E req \in inflight :
       LET fetched == fetchTable(RemoteGet(table, req.query))
           plan == SyncPlan(fetched, records, keyColIds, options.filters)
           next == UpdateStart(op, plan.updateList, plan.addList, chunkSize)
       IN  /\ gristRows' = GristRows(fetched, keyColIds, <<>>)
           /\ updateList' = plan.updateList
           /\ addList' = plan.addList
           /\ GoOn(next.pc, next.queue, next.error, sent)
  /\ nOk' = nOk + 1
  /\ UNCHANGED <<remoteVars, configVars, argVars, results, run, prev, table0, orchVars>>

\* The remote answers the fetch with data whose id column is no array.
FetchBadResponse ==
  /\ pc = "fetch"
  /\ inflight # {}
  /\ pc' = "failed"
  /\ error' = "badResponse"
  /\ inflight' = {}
  /\ UNCHANGED <<remoteVars, configVars, argVars, queue, gristRows, updateList,
                 addList, results, sent, nOk, run, prev, table0, orchVars>>

\* The remote applies the update request in flight and answers it.
PatchReply ==
  /\ pc = "update"
  /\ \E req \in inflight :
       /\ table' = RemotePatch(table, req.data)
       /\ LET next == IF Tail(queue) # <<>>
                        THEN [pc |-> "update", queue |-> Tail(queue), error |-> "none"]
                        ELSE AfterUpdate(op, addList, chunkSize)
          IN  GoOn(next.pc, next.queue, next.error, sent)
  /\ nOk' = nOk + 1
  /\ UNCHANGED <<nextId, configVars, argVars, gristRows, updateList, addList,
                 results, run, prev, table0, orchVars>>

\* The remote applies the add request in flight and answers with the new ids.
PostReply ==
  /\ pc = "add"
  /\ \E req \in inflight :
       /\ table' = RemotePost(table, nextId, req.data)
       /\ nextId' = nextId + NumRows(req.data)
       /\ results' = results \o RemotePostIds(nextId, req.data)
       /\ IF Tail(queue) # <<>>
            THEN GoOn("add", Tail(queue), "none", sent)
            ELSE GoOn("done", <<>>, "none", sent)
  /\ nOk' = nOk + 1
  /\ UNCHANGED <<configVars, argVars, gristRows, updateList, addList, run, prev,
                 table0, orchVars>>

\* The remote applies the bulk removal in flight and answers it.
DeleteReply ==
  /\ pc = "delete"
  /\ \E req \in inflight :
       /\ table' = RemoteApply(table, req.data)
       /\ IF Tail(queue) # <<>>
            THEN GoOn("delete", Tail(queue), "none", sent)
            ELSE GoOn("done", <<>>, "none", sent)
  /\ nOk' = nOk + 1
  /\ UNCHANGED <<nextId, configVars, argVars, gristRows, updateList, addList,
                 results, run, prev, table0, orchVars>>

\* As RequestFails, the remote table put back as it was before the call.
RequestFailsRolledBack ==
  /\ inflight # {}
  /\ pc' = "failed"
  /\ error' = "remote"
  /\ inflight' = {}
  /\ table' = table0
  /\ UNCHANGED <<nextId, configVars, argVars, queue, gristRows, updateList,
                 addList, results, sent, nOk, run, prev, table0, orchVars>>

\* The request in flight fails: _call throws and so does the call.
RequestFails ==
  /\ inflight # {}
  /\ pc' = "failed"
  /\ error' = "remote"
  /\ inflight' = {}
  /\ UNCHANGED <<remoteVars, configVars, argVars, queue, gristRows, updateList,
                 addList, results, sent, nOk, run, prev, table0, orchVars>>

\* The records updateRecords is called with: the columns A and B with an id
\* that is a row's, or the column A with an id that is zero, a string or absent.
UpdateFields ==
  {g \in [{"id", "A", "B"} -> {Undef, Num(0), Num(1), Num(2), Str(1)}] :
     /\ g["A"] \in {Undef, Num(1)}
     /\ g["B"] \in {Undef, Num(1)}
     /\ g["A"] # Undef \/ g["B"] # Undef
     /\ g["id"] \notin {Num(1), Num(2)} => g["B"] = Undef}

\* A record that has both columns comes in either property order.
UpdateRecordSet ==
  {ToObject(f, <<"A", "B", "id">>) : f \in UpdateFields}
  \cup {ToObject(f, <<"id", "B", "A">>) :
          f \in {g \in UpdateFields : g["A"] # Undef /\ g["B"] # Undef}}

\* The caller calls updateRecords.
UpdateRecords ==
  /\ pc = "idle"
  /\ \E recs \in SeqsUpTo(UpdateRecordSet, MaxBatch) :
       /\ records' = recs
       /\ LET next == UpdateStart("update", recs, <<>>, chunkSize)
          IN  GoOn(next.pc, next.queue, next.error, <<>>)
  /\ op' = "update"
  /\ run' = run + 1
  /\ UNCHANGED <<remoteVars, configVars, recordIds, keyColIds, options, gristRows, updateList,
                 addList, results, nOk, prev, table0, orchVars>>

\* The caller calls addRecords.
AddRecords ==
  /\ pc = "idle"
  /\ \E recs \in SeqsUpTo(SourceRecords, MaxBatch) :
       /\ records' = recs
       /\ LET next == AddStart(recs, chunkSize)
          IN  GoOn(next.pc, next.queue, next.error, <<>>)
  /\ op' = "add"
  /\ run' = run + 1
  /\ UNCHANGED <<remoteVars, configVars, recordIds, keyColIds, options, gristRows, updateList,
                 addList, results, nOk, prev, table0, orchVars>>

\* The ids deleteRecords is called with: those the remote table may hold.
RecordIdSet == {Num(i) : i \in 1..MaxRows}

\* The caller calls deleteRecords.
DeleteRecords ==
  /\ pc = "idle"
  /\ \E ids \in SeqsUpTo(RecordIdSet, MaxBatch) :
       /\ recordIds' = ids
       /\ LET next == DeleteStart(ids, chunkSize)
          IN  GoOn(next.pc, next.queue, next.error, <<>>)
  /\ op' = "delete"
  /\ run' = run + 1
  /\ UNCHANGED <<remoteVars, configVars, records, keyColIds, options, gristRows,
                 updateList, addList, results, nOk, prev, table0, orchVars>>

\* The call of a dry-run client has returned or thrown, and its caller goes
\* on to the next call.
NextCall ==
  /\ dryrun
  /\ pc \in {"done", "failed"}
  /\ run < MaxRuns
  /\ pc' = "idle"
  /\ op' = "none"
  /\ records' = <<>>
  /\ recordIds' = <<>>
  /\ keyColIds' = <<>>
  /\ options' = [filters |-> NoFilters]
  /\ inflight' = {}
  /\ queue' = <<>>
  /\ gristRows' = <<>>
  /\ updateList' = <<>>
  /\ addList' = <<>>
  /\ results' = <<>>
  /\ error' = "none"
  /\ sent' = <<>>
  /\ nOk' = 0
  /\ UNCHANGED <<remoteVars, configVars, run, prev, table0, orchVars>>

Next ==
  \/ SyncTable
  \/ Rerun
  \/ FetchReply
  \/ FetchBadResponse
  \/ PatchReply
  \/ PostReply
  \/ RequestFails

Spec == Init /\ [][Next]_vars

\* updateRecords alone, on a table of MaxRows rows.
InitUpdate == Init /\ Len(table) = MaxRows /\ \A i \in 1..Len(table) : table[i].K = Num(1) /\ table[i].A = Num(2)

NextUpdate ==
  \/ UpdateRecords
  \/ PatchReply
  \/ RequestFails

SpecUpdate == InitUpdate /\ [][NextUpdate]_vars

\* addRecords alone, on an empty table and on a table of MaxRows rows.
InitAdd == InitUpdate \/ (Init /\ table = <<>>)

NextAdd ==
  \/ AddRecords
  \/ PostReply
  \/ RequestFails

SpecAdd == InitAdd /\ [][NextAdd]_vars

\* Every method, of a client in dry-run mode or not, on an empty table and on
\* a table of MaxRows rows.
InitDry ==
  \E flag \in BOOLEAN :
    /\ InitClient(flag)
    /\ \/ table = <<>>
       \/ /\ Len(table) = MaxRows
          /\ \A i \in 1..Len(table) : table[i].K = Num(1) /\ table[i].A = Num(2)

NextDry ==
  \/ SyncTable
  \/ UpdateRecords
  \/ AddRecords
  \/ DeleteRecords
  \/ FetchReply
  \/ FetchBadResponse
  \/ PatchReply
  \/ PostReply
  \/ DeleteReply
  \/ RequestFails
  \/ NextCall

SpecDry == InitDry /\ [][NextDry]_vars

\* ------------------------------------------------- the invoice sync server
\* Columns of the tables of the source and of the destination document.
SrcInvoiceCols == <<"id", "Invoice_ID", "Date", "CustomerJson", "InvoicerDocId">>

DestInvoiceCols == <<"id", "Invoice_ID", "Date", "CustomerJson", "Last_Sync">>

ItemCols == <<"id", "Invoice", "Description", "Unit_Price", "Quantity">>

DestCols(tbl) == IF tbl = "Invoices" THEN DestInvoiceCols ELSE ItemCols

\* this._chunkSize of a client constructed without the chunkSize option.
DefaultChunkSize == 500

\* The choices of one element of Choices for each of the rows 1..n of a table.
RowChoices(n, Choices) == [1..n -> Choices]

\* Source invoices: the invoice of row i has the Invoice_ID MaxInvoices + 1 - i
\* and names the destination document, if it names one.
SrcInvoiceRow(i, doc) ==
  [id |-> Num(i), Invoice_ID |-> Num(MaxInvoices + 1 - i), Date |-> Num(1),
   CustomerJson |-> Str(1), InvoicerDocId |-> doc]

\* Source items: each belongs to a source invoice row and has a description.
ItemChoices(n) == {[Invoice |-> Num(i), Description |-> d] : i \in 1..n, d \in {Str(1), Str(2)}}

SrcItemRow(i, x) ==
  [id |-> Num(i), Invoice |-> x.Invoice, Description |-> x.Description,
   Unit_Price |-> Num(1), Quantity |-> Num(1)]

\* The source documents: one to MaxInvoices invoices, up to MaxItems items.
SrcInvoiceTables ==
  UNION {{[i \in 1..n |-> SrcInvoiceRow(i, x[i])] :
            x \in RowChoices(n, IF n = 1 THEN {Str(1), Null} ELSE {Str(1)})} :
           n \in 1..MaxInvoices}

SrcItemTables ==
  UNION {{[i \in 1..n |-> SrcItemRow(i, x[i])] :
            x \in RowChoices(n, ItemChoices(MaxInvoices))} : n \in 0..MaxItems}

SrcDocs ==
  {[Invoices |-> inv, Items |-> items] :
     inv \in SrcInvoiceTables, items \in SrcItemTables}

\* Destination invoices, copied earlier, and destination items.
DestInvoiceRow(i, invoiceId) ==
  [id |-> Num(i), Invoice_ID |-> invoiceId, Date |-> Num(2),
   CustomerJson |-> Str(1), Last_Sync |-> Num(0)]

DestItemRow(i, x) ==
  [id |-> Num(i), Invoice |-> x.Invoice, Description |-> x.Description,
   Unit_Price |-> Num(1), Quantity |-> Num(2)]

DestInvoiceTables ==
  UNION {{[i \in 1..n |-> DestInvoiceRow(i, x[i])] :
            x \in RowChoices(n, {Num(i) : i \in 1..MaxInvoices})} :
           n \in 0..MaxInvoices}

DestItemTables ==
  UNION {{[i \in 1..n |-> DestItemRow(i, x[i])] :
            x \in RowChoices(n, ItemChoices(MaxInvoices))} : n \in 0..MaxItems}

DestDocs ==
  {[Invoices |-> inv, Items |-> items] :
     inv \in DestInvoiceTables, items \in DestItemTables}

\* parseInt(req.params.invoiceId, 10): Num(0) stands for NaN and for 0.
InvoiceIdParams == {Num(i) : i \in 0..MaxInvoices}

\* The server and the two documents before the first request of the widget:
\* every source item belongs to a source invoice; the clients the handlers
\* construct have the default chunkSize and are not in dry-run mode.
InitServer ==
  /\ table = <<>>
  /\ nextId = 1
  /\ chunkSize = DefaultChunkSize
  /\ dryrun = FALSE
  /\ NoCall
  /\ table0 = table
  /\ srcDoc \in {d \in SrcDocs :
                   \A i \in 1..Len(d.Items) : d.Items[i].Invoice.v <= Len(d.Invoices)}
  /\ destDoc \in DestDocs
  /\ destNextId = [Invoices |-> Len(destDoc.Invoices) + 1,
                   Items |-> Len(destDoc.Items) + 1]
  /\ destDoc0 = destDoc
  /\ now = 1
  /\ h = NoHandler
  /\ other = NoHandler
  /\ w = NoWidget

\* A request a handler's client sends to a document.
DocRequest(doc, tbl, method, path, query, data) ==
  [doc |-> doc, table |-> tbl, method |-> method, path |-> path, query |-> query,
   data |-> data]

\* The handler sends the request and awaits its answer at nextPc.
HSend(hh, nextPc, req) ==
  [hh EXCEPT !.pc = nextPc, !.inflight = {req}, !.sent = Append(@, req)]

\* res.send(...) of a handler that has not failed.
Respond(hh, body) ==
  [hh EXCEPT !.pc = "done", !.inflight = {},
             !.response = [by |-> "handler", status |-> 200, body |-> body]]

\* The catch block of the handler: getCopyInfo answers with status 400 and
\* {error: String(err)}, onSync passes the error on with next(err).
Catch(hh, err) ==
  [hh EXCEPT !.pc = "failed", !.error = err, !.inflight = {},
             !.response = IF hh.op = "info"
                            THEN [by |-> "handler", status |-> 400, body |-> "error"]
                            ELSE [by |-> "next", status |-> 0, body |-> "none"]]

\* options.filters of syncTable, options an object.
OptionsFilters(opts) ==
  IF Has(opts, "filters") THEN Filters(Get(opts, "filters")) ELSE NoFilters

\* gristApiDest.syncTable(tbl, recs, keys, opts) up to its first await or its
\* throw.
HSyncStart(hh, tbl, recs, keys, opts) ==
  LET filters == OptionsFilters(opts)
  IN  IF filters.given /\ ~FilterColsOk(filters, keys) THEN Catch(hh, "filterCols")
      ELSE HSend([hh EXCEPT !.tbl = tbl, !.records = recs, !.keys = keys,
                            !.filters = filters, !.updateList = <<>>,
                            !.addList = <<>>, !.queue = <<>>],
                 "syncFetch", DocRequest("dest", tbl, "GET", "data", filters, <<>>))

\* What onSync does when syncTable has returned: it fetches the destination
\* invoice, or the destination items of that invoice.
AfterSync(hh) ==
  IF hh.tbl = "Invoices"
    THEN HSend(hh, "destInvoice",
               DocRequest("dest", "Invoices", "GET", "data",
                          Filters(<<[c |-> "Invoice_ID", v |-> <<hh.invoiceId>>]>>), <<>>))
    ELSE HSend(hh, "destItems",
               DocRequest("dest", "Items", "GET", "data",
                          Filters(<<[c |-> "Invoice", v |-> <<Get(hh.destInvoice, "id")>>]>>),
                          <<>>))

\* syncTable of the handler goes on as next, the result of UpdateStart,
\* AfterUpdate or AddStart, says.
HGoOn(hh, next) ==
  IF next.pc = "failed" THEN Catch(hh, next.error)
  ELSE IF next.pc = "update"
    THEN HSend([hh EXCEPT !.queue = next.queue], "syncUpdate",
               DocRequest("dest", hh.tbl, "PATCH", "data", NoFilters, Head(next.queue)))
  ELSE IF next.pc = "add"
    THEN HSend([hh EXCEPT !.queue = next.queue], "syncAdd",
               DocRequest("dest", hh.tbl, "POST", "data", NoFilters, Head(next.queue)))
  ELSE AfterSync([hh EXCEPT !.queue = <<>>])

\* As ItemsCopy, each item left with the Invoice it has in the source.
ItemsCopyUntied(sourceItems, destInvoice) ==
  [i \in 1..Len(sourceItems) |->
     Pick(sourceItems[i], <<"Description", "Unit_Price", "Quantity", "Invoice">>)]

\* The items onSync syncs: the picked columns of the source items, tied to the
\* destination invoice.
ItemsCopy(sourceItems, destInvoice) ==
  [i \in 1..Len(sourceItems) |->
     SetProp(Pick(sourceItems[i], <<"Description", "Unit_Price", "Quantity">>),
             "Invoice", Get(destInvoice, "id"))]

\* As DestItemsToDelete, every destination item of the invoice.
DestItemsToDeleteAll(destItems, itemsCopy) == destItems

\* The destination items onSync deletes: those whose Description no synced
\* item has.
DestItemsToDelete(destItems, itemsCopy) ==
  SelectSeq(destItems, LAMBDA i :
    ~\E n \in 1..Len(itemsCopy) :
       Get(itemsCopy[n], "Description") = Get(i, "Description"))

clientVars ==
  <<table, nextId, chunkSize, dryrun, op, records, recordIds, keyColIds, options,
    pc, inflight, queue, gristRows, updateList, addList, results, error, sent,
    nOk, run, prev, table0>>

\* As Fetched, the filters of the fetch left out of the request.
FetchedUnfiltered(cols, tbl, req) == fetchTable(RemoteGetIn(cols, tbl, NoFilters))

\* The records of the answer to the fetch in flight.
Fetched(cols, tbl, req) == fetchTable(RemoteGetIn(cols, tbl, req.query))

\* POST /sync/:invoiceId reaches the server: onSync up to its first await.
OnSync ==
  /\ h.pc = "idle"
  /\ \E p \in InvoiceIdParams :
       LET hh == [NoHandler EXCEPT !.op = "sync", !.invoiceId = p]
       IN  h' = IF ~Truthy(p) THEN Catch(hh, "invoiceId")
                ELSE HSend(hh, "srcInvoice",
                           DocRequest("src", "Invoices", "GET", "data",
                                      Filters(<<[c |-> "Invoice_ID", v |-> <<p>>]>>), <<>>))
  /\ UNCHANGED <<clientVars, srcDoc, destDoc, destNextId, destDoc0, now, other, w>>

\* onSync has the source invoice, or finds none, and fetches its items.
SrcInvoiceReply ==
  /\ h.op = "sync"
  /\ h.pc = "srcInvoice"
  /\ \E req \in h.inflight :
       LET found == Fetched(SrcInvoiceCols, srcDoc.Invoices, req)
       IN  h' = IF found = <<>> THEN Catch(h, "notFound")
                ELSE HSend([h EXCEPT !.sourceInvoice = found[1]], "srcItems",
                           DocRequest("src", "Items", "GET", "data",
                                      Filters(<<[c |-> "Invoice",
                                                 v |-> <<Get(found[1], "id")>>]>>), <<>>))
  /\ UNCHANGED <<clientVars, srcDoc, destDoc, destNextId, destDoc0, now, other, w>>

\* onSync has the source items: it checks the destination document id and
\* calls syncTable for the copy of the invoice.
SrcItemsReply ==
  /\ h.pc = "srcItems"
  /\ \E req \in h.inflight :
       LET items == Fetched(ItemCols, srcDoc.Items, req)
           destDocId == Get(h.sourceInvoice, "InvoicerDocId")
           invoiceCopy == SetProp(Pick(h.sourceInvoice,
                                       <<"Invoice_ID", "Date", "CustomerJson">>),
                                  "Last_Sync", Num(now))
           hh == [h EXCEPT !.sourceItems = items]
       IN  h' = IF ~Truthy(destDocId) \/ TypeOf(destDocId) # "string"
                  THEN Catch(hh, "destDocId")
                ELSE HSyncStart(hh, "Invoices", <<invoiceCopy>>, <<"Invoice_ID">>, <<>>)
  /\ UNCHANGED <<clientVars, srcDoc, destDoc, destNextId, destDoc0, now, other, w>>

\* The destination answers the fetch of syncTable: syncTable computes its
\* plan and calls updateRecords, then addRecords.
SyncFetchReply ==
  /\ h.pc = "syncFetch"
  /\ \E req \in h.inflight :
       LET plan == SyncPlan(Fetched(DestCols(h.tbl), destDoc[h.tbl], req),
                            h.records, h.keys, h.filters)
           next == UpdateStart("sync", plan.updateList, plan.addList, chunkSize)
       IN  h' = HGoOn([h EXCEPT !.updateList = plan.updateList,
                                !.addList = plan.addList], next)
  /\ UNCHANGED <<clientVars, srcDoc, destDoc, destNextId, destDoc0, now, other, w>>

\* The destination applies the update request of syncTable and answers it.
SyncPatchReply ==
  /\ h.pc = "syncUpdate"
  /\ \E req \in h.inflight :
       /\ destDoc' = [destDoc EXCEPT ![h.tbl] = RemotePatch(@, req.data)]
       /\ h' = HGoOn(h, IF Tail(h.queue) # <<>>
                          THEN [pc |-> "update", queue |-> Tail(h.queue), error |-> "none"]
                          ELSE AfterUpdate("sync", h.addList, chunkSize))
  /\ UNCHANGED <<clientVars, srcDoc, destNextId, destDoc0, now, other, w>>

\* The destination applies the add request of syncTable and answers it.
SyncPostReply ==
  /\ h.pc = "syncAdd"
  /\ \E req \in h.inflight :
       /\ destDoc' = [destDoc EXCEPT ![h.tbl] =
                        RemotePostIn(DestCols(h.tbl), @, destNextId[h.tbl], req.data)]
       /\ destNextId' = [destNextId EXCEPT ![h.tbl] = @ + NumRows(req.data)]
       /\ h' = HGoOn([h EXCEPT !.results[h.tbl] =
                                  @ \o RemotePostIds(destNextId[h.tbl], req.data)],
                      IF Tail(h.queue) # <<>>
                        THEN [pc |-> "add", queue |-> Tail(h.queue), error |-> "none"]
                        ELSE [pc |-> "done", queue |-> <<>>, error |-> "none"])
  /\ UNCHANGED <<clientVars, srcDoc, destDoc0, now, other, w>>

\* onSync has the destination invoice, or finds none, and calls syncTable
\* for the copies of the items.
DestInvoiceReply ==
  /\ h.pc = "destInvoice"
  /\ \E req \in h.inflight :
       LET found == Fetched(DestInvoiceCols, destDoc.Invoices, req)
           itemsCopy == ItemsCopy(h.sourceItems, found[1])
       IN  h' = IF found = <<>> THEN Catch(h, "failedToSync")
                ELSE HSyncStart([h EXCEPT !.destInvoice = found[1],
                                          !.itemsCopy = itemsCopy],
                                "Items", itemsCopy, <<"Invoice", "Description">>,
                                <<[c |-> "Invoice", v |-> <<Get(found[1], "id")>>]>>)
  /\ UNCHANGED <<clientVars, srcDoc, destDoc, destNextId, destDoc0, now, other, w>>

\* onSync has the destination items of the invoice and calls deleteRecords
\* for those that are gone; with none to delete it answers the widget.
DestItemsReply ==
  /\ h.pc = "destItems"
  /\ \E req \in h.inflight :
       LET gone == DestItemsToDelete(Fetched(ItemCols, destDoc.Items, req), h.itemsCopy)
           next == DeleteStart([i \in 1..Len(gone) |-> Get(gone[i], "id")], chunkSize)
       IN  h' = IF next.pc = "delete"
                  THEN HSend([h EXCEPT !.queue = next.queue], "delete",
                             DocRequest("dest", "Items", "POST", "apply", NoFilters,
                                        Head(next.queue)))
                ELSE Respond(h, "id")
  /\ UNCHANGED <<clientVars, srcDoc, destDoc, destNextId, destDoc0, now, other, w>>

\* The destination applies the bulk removal of deleteRecords and answers it.
SyncDeleteReply ==
  /\ h.pc = "delete"
  /\ \E req \in h.inflight :
       /\ destDoc' = [destDoc EXCEPT !.Items = RemoteApply(@, req.data)]
       /\ h' = IF Tail(h.queue) # <<>>
                 THEN HSend([h EXCEPT !.queue = Tail(h.queue)], "delete",
                            DocRequest("dest", "Items", "POST", "apply", NoFilters,
                                       Head(Tail(h.queue))))
               ELSE Respond([h EXCEPT !.queue = <<>>], "id")
  /\ UNCHANGED <<clientVars, srcDoc, destNextId, destDoc0, now, other, w>>

\* GET /invoice-copy-info/:invoiceId reaches the server: getCopyInfo up to
\* its first await.
GetCopyInfo ==
  /\ h.pc = "idle"
  /\ \E p \in InvoiceIdParams :
       LET hh == [NoHandler EXCEPT !.op = "info", !.invoiceId = p]
       IN  h' = IF ~Truthy(p) THEN Catch(hh, "invoiceId")
                ELSE HSend(hh, "srcInvoice",
                           DocRequest("src", "Invoices", "GET", "data",
                                      Filters(<<[c |-> "Invoice_ID", v |-> <<p>>]>>), <<>>))
  /\ UNCHANGED <<clientVars, srcDoc, destDoc, destNextId, destDoc0, now, other, w>>

\* getCopyInfo has the source invoice, or finds none; it checks the
\* destination document id and fetches the destination invoice.
InfoSrcInvoiceReply ==
  /\ h.op = "info"
  /\ h.pc = "srcInvoice"
  /\ \E req \in h.inflight :
       LET found == Fetched(SrcInvoiceCols, srcDoc.Invoices, req)
           destDocId == Get(found[1], "InvoicerDocId")
       IN  h' = IF found = <<>> THEN Catch(h, "notFound")
                ELSE IF ~Truthy(destDocId) \/ TypeOf(destDocId) # "string"
                  THEN Catch([h EXCEPT !.sourceInvoice = found[1]], "destDocId")
                ELSE HSend([h EXCEPT !.sourceInvoice = found[1]], "infoDestInvoice",
                           DocRequest("dest", "Invoices", "GET", "data",
                                      Filters(<<[c |-> "Invoice_ID",
                                                 v |-> <<h.invoiceId>>]>>), <<>>))
  /\ UNCHANGED <<clientVars, srcDoc, destDoc, destNextId, destDoc0, now, other, w>>

\* getCopyInfo has the destination invoice, if there is one, and asks for
\* the destination document's info.
InfoDestInvoiceReply ==
  /\ h.pc = "infoDestInvoice"
  /\ \E req \in h.inflight :
       LET found == Fetched(DestInvoiceCols, destDoc.Invoices, req)
       IN  h' = HSend([h EXCEPT !.destInvoice = IF found = <<>> THEN <<>> ELSE found[1]],
                      "infoDoc",
                      DocRequest("dest", "none", "GET", "doc", NoFilters, <<>>))
  /\ UNCHANGED <<clientVars, srcDoc, destDoc, destNextId, destDoc0, now, other, w>>

\* getCopyInfo has the document's info and answers the widget.
InfoDocReply ==
  /\ h.pc = "infoDoc"
  /\ h.inflight # {}
  /\ h' = Respond(h, "info")
  /\ UNCHANGED <<clientVars, srcDoc, destDoc, destNextId, destDoc0, now, other, w>>

\* The request in flight fails: _call throws, and the handler catches.
HandlerRequestFails ==
  /\ h.inflight # {}
  /\ h' = Catch(h, "remote")
  /\ UNCHANGED <<clientVars, srcDoc, destDoc, destNextId, destDoc0, now, other, w>>

NextServer ==
  \/ OnSync
  \/ SrcInvoiceReply
  \/ SrcItemsReply
  \/ SyncFetchReply
  \/ SyncPatchReply
  \/ SyncPostReply
  \/ DestInvoiceReply
  \/ DestItemsReply
  \/ SyncDeleteReply
  \/ GetCopyInfo
  \/ InfoSrcInvoiceReply
  \/ InfoDestInvoiceReply
  \/ InfoDocReply
  \/ HandlerRequestFails

SpecServer == InitServer /\ [][NextServer]_vars

\* Two requests of the widget handled at once. A handler runs from one await
\* to the next without interruption; while it awaits, the other handler may
\* take its steps.
Yield ==
  /\ h # NoHandler \/ other # NoHandler
  /\ h' = other
  /\ other' = h
  /\ UNCHANGED <<clientVars, srcDoc, destDoc, destNextId, destDoc0, now, w>>

\* The documents before two overlapping syncs: two source invoices that name
\* the destination document, and MaxItems items at most in both documents.
InitConcurrent ==
  /\ InitServer
  /\ Len(srcDoc.Invoices) = MaxInvoices
  /\ Len(srcDoc.Items) + Len(destDoc.Items) <= MaxItems

NextConcurrent ==
  \/ OnSync
  \/ SrcInvoiceReply
  \/ SrcItemsReply
  \/ SyncFetchReply
  \/ SyncPatchReply
  \/ SyncPostReply
  \/ DestInvoiceReply
  \/ DestItemsReply
  \/ SyncDeleteReply
  \/ Yield

SpecConcurrent == InitConcurrent /\ [][NextConcurrent]_vars

\* ---------------------------------------------------------------- the widget
\* new Date(x * 1000) of a truthy x, as the number of milliseconds; null for
\* a falsy x.
DateOf(x) == IF Truthy(x) THEN [t |-> "date", v |-> x.v * 1000] ELSE Null

\* Array.prototype.indexOf, counted from 1: 0 when x is not in s.
IndexOf(s, x) ==
  IF \E i \in 1..Len(s) : s[i] = x
    THEN CHOOSE i \in 1..Len(s) : s[i] = x /\ \A j \in 1..(i - 1) : s[j] # x
  ELSE 0

RemoveAt(s, n) == SubSeq(s, 1, n - 1) \o SubSeq(s, n + 1, Len(s))

\* The body of the server's answer, of status 200, to GET
\* /invoice-copy-info/x: the url and the name of the destination document,
\* each held as the document's id, and the columns of the copy of the
\* invoice, which has the Last_Sync, Date and Total x.
InfoBody(x) ==
  LET found == Fetched(SrcInvoiceCols, srcDoc.Invoices,
                       [query |-> Filters(<<[c |-> "Invoice_ID", v |-> <<x>>]>>)])
      destDocId == Get(found[1], "InvoicerDocId")
  IN  <<[c |-> "DocUrl", v |-> destDocId], [c |-> "DocName", v |-> destDocId],
        [c |-> "Last_Sync", v |-> x], [c |-> "Date", v |-> x], [c |-> "Total", v |-> x]>>

\* data.copy of an answer of status 200.
CopyOf(value) ==
  <<[c |-> "lastCopyDate", v |-> DateOf(Get(value, "Last_Sync"))],
    [c |-> "invoiceDate", v |-> DateOf(Get(value, "Date"))],
    [c |-> "invoiceTotal", v |-> Get(value, "Total")]>>

\* updateWidget(rowId) up to the call of fetchSelectedTable.
UpdateWidget(ww, rowId) ==
  [ww EXCEPT !.syncBtn = [disabled |-> TRUE, listener |-> FALSE],
             !.tableFetches = Append(@, rowId)]

\* Grist sends the widget a message; rowId 0 stands for a message without
\* rowId.
Message ==
  /\ w.events < MaxEvents
  /\ \E rowId \in {Num(i) : i \in 0..(MaxInvoices + 1)} :
       LET ww == [w EXCEPT !.events = @ + 1]
       IN  w' = IF Truthy(rowId) THEN UpdateWidget(ww, rowId) ELSE ww
  /\ UNCHANGED <<clientVars, srcDoc, destDoc, destNextId, destDoc0, now, h, other>>

\* One of the fetchSelectedTable calls is answered: the callback of
\* updateWidget runs, and with a destination document getCopyInfo up to its
\* first await.
SelectedTableReply ==
  /\ \E n \in 1..Len(w.tableFetches) :
       LET v == RemoteGetIn(SrcInvoiceCols, srcDoc.Invoices, NoFilters)
           idx == IndexOf(Get(v, "id"), w.tableFetches[n])
           row == RowOf(v, idx)
           ww == [w EXCEPT !.tableFetches = RemoveAt(@, n)]
           shown == [ww EXCEPT !.invoiceRow = row,
                               !.invoice = <<[c |-> "id", v |-> Get(row, "Invoice_ID")]>>,
                               !.copy = <<>>]
       IN  w' = IF idx = 0 THEN ww
                ELSE IF Truthy(Get(row, "InvoicerDocId"))
                  THEN [shown EXCEPT !.infoFetches = Append(@, Get(row, "Invoice_ID")),
                                     !.syncBtn = [disabled |-> FALSE, listener |-> TRUE]]
                ELSE [shown EXCEPT !.message = "none", !.syncBtn.disabled = TRUE]
  /\ UNCHANGED <<clientVars, srcDoc, destDoc, destNextId, destDoc0, now, h, other>>

\* One of the invoice-copy-info requests is answered, with status 200 or
\* with another status and an error: getCopyInfo from its first await on.
CopyInfoReply ==
  /\ \E n \in 1..Len(w.infoFetches), ok \in BOOLEAN :
       LET value == InfoBody(w.infoFetches[n])
           ww == [w EXCEPT !.infoFetches = RemoveAt(@, n)]
       IN  w' = IF ok
                  THEN [ww EXCEPT !.copy = CopyOf(value),
                                  !.invoice = SetProp(SetProp(@, "docUrl", Get(value, "DocUrl")),
                                                      "docName", Get(value, "DocName")),
                                  !.message = "none"]
                ELSE [ww EXCEPT !.copy = <<>>, !.message = "error"]
  /\ UNCHANGED <<clientVars, srcDoc, destDoc, destNextId, destDoc0, now, h, other>>

\* The user clicks the sync button: onClickSync up to its first await.
ClickSync ==
  /\ w.events < MaxEvents
  /\ w.syncBtn.listener
  /\ ~w.syncBtn.disabled
  /\ w' = [w EXCEPT !.events = @ + 1,
                    !.syncFetches = Append(@, Get(w.invoiceRow, "Invoice_ID"))]
  /\ UNCHANGED <<clientVars, srcDoc, destDoc, destNextId, destDoc0, now, h, other>>

\* One of the sync requests is answered: with status 200, with another
\* status and a JSON body, or with a body that is not JSON, for which
\* resp.json() rejects and onClickSync ends.
SyncReply ==
  /\ \E n \in 1..Len(w.syncFetches), answer \in {"ok", "error", "notJson"} :
       LET ww == [w EXCEPT !.syncFetches = RemoveAt(@, n)]
       IN  w' = IF answer = "ok" THEN UpdateWidget(ww, Get(w.invoiceRow, "id"))
                ELSE IF answer = "error" THEN [ww EXCEPT !.message = "error"]
                ELSE ww
  /\ UNCHANGED <<clientVars, srcDoc, destDoc, destNextId, destDoc0, now, h, other>>

\* The widget in a source document of MaxInvoices invoices, each naming a
\* destination document or none.
InitWidget ==
  /\ table = <<>>
  /\ nextId = 1
  /\ chunkSize = DefaultChunkSize
  /\ dryrun = FALSE
  /\ NoCall
  /\ table0 = table
  /\ srcDoc \in {[Invoices |-> [i \in 1..MaxInvoices |-> SrcInvoiceRow(i, x[i])],
                  Items |-> <<>>] :
                   x \in RowChoices(MaxInvoices, {Str(1), Str(2), Null})}
  /\ destDoc = NoRows
  /\ destNextId = [Invoices |-> 1, Items |-> 1]
  /\ destDoc0 = NoRows
  /\ now = 1
  /\ h = NoHandler
  /\ other = NoHandler
  /\ w = NoWidget

NextWidget ==
  \/ Message
  \/ SelectedTableReply
  \/ CopyInfoReply
  \/ ClickSync
  \/ SyncReply

SpecWidget == InitWidget /\ [][NextWidget]_vars

\* ----------------------------------------------------------------- claims
\* The records a request body carries: row i as the set of its cells, a cell
\* of a column the record does not have left out.
DataRows(data) ==
  [i \in 1..NumRows(data) |-> {cell \in Range(RowOf(data, i)) : cell.v # Undef}]

\* The records of all the requests of a log, in sending order.
LogRows(log) == Concat([n \in 1..Len(log) |-> DataRows(log[n].data)])

AsSets(recs) == [i \in 1..Len(recs) |-> AsSet(recs[i])]

Ceil(m, n) == (m + n - 1) \div n

Writes(log) == SelectSeq(log, LAMBDA r : r.method # "GET")

\* The filter uses a column that is not among the key columns.
FilterOutsideKeys ==
  /\ options.filters.given
  /\ \E i \in 1..Len(options.filters.cols) :
       \A j \in 1..Len(keyColIds) : keyColIds[j] # options.filters.cols[i].c

\* C5: a syncTable call whose filter uses a column outside keyColIds has
\* failed with the filter error and has sent no request at all, the remote
\* table being as it was; a call whose filter columns are all key columns
\* never fails with that error.
FilterValidatedFirst ==
  op = "sync" =>
    /\ FilterOutsideKeys =>
         /\ pc = "failed"
         /\ error = "filterCols"
         /\ sent = <<>>
         /\ inflight = {}
         /\ table = table0
    /\ ~FilterOutsideKeys => error # "filterCols"

FilterValidatedFirstWitness ==
  /\ op = "sync"
  /\ FilterOutsideKeys
  /\ error = "filterCols"
  /\ records # <<>>
  /\ table # <<>>

\* The id of the record is missing, zero or not a number.
BadId(rec) ==
  \/ ~Has(rec, "id")
  \/ Get(rec, "id") = Num(0)
  \/ Get(rec, "id").t # "number"

\* C10: an updateRecords call with a record, at any position, whose id is
\* missing, zero or not a number has failed and has sent no request, the
\* remote table being as it was.
UpdateValidatesAllIdsFirst ==
  (op = "update" /\ \E i \in 1..Len(records) : BadId(records[i])) =>
    /\ pc = "failed"
    /\ error = "id"
    /\ sent = <<>>
    /\ inflight = {}
    /\ table = table0

UpdateValidatesAllIdsFirstWitness ==
  /\ op = "update"
  /\ Len(records) = 3
  /\ ~BadId(records[1])
  /\ ~BadId(records[2])
  /\ Keys(records[1]) # Keys(records[2])
  /\ BadId(records[3])
  /\ pc = "failed"

\* C8: the requests addRecords has sent are creation requests of at most
\* chunkSize records each that carry, in order and without loss or
\* repetition, a prefix of its records; when it returns it has sent
\* ceil(M / chunkSize) of them for all M records, and the i-th id it returns
\* is the id of the new row that holds the i-th record.
AddChunking ==
  op = "add" =>
    /\ \A n \in 1..Len(sent) :
         /\ sent[n].method = "POST"
         /\ sent[n].path = "data"
         /\ NumRows(sent[n].data) >= 1
         /\ NumRows(sent[n].data) <= chunkSize
    /\ Len(LogRows(sent)) <= Len(records)
    /\ LogRows(sent) = AsSets(SubSeq(records, 1, Len(LogRows(sent))))
    /\ pc = "done" =>
         /\ Len(sent) = Ceil(Len(records), chunkSize)
         /\ Len(LogRows(sent)) = Len(records)
         /\ Len(results) = Len(records)
         /\ \A i \in 1..Len(records) :
              /\ results[i] = table[Len(table0) + i].id
              /\ \A c \in Range(TableCols) :
                   table[Len(table0) + i][c] = JsonVal(Get(records[i], c))

AddChunkingWitness ==
  /\ op = "add"
  /\ pc = "done"
  /\ Len(records) = 3
  /\ chunkSize = 2
  /\ Len(sent) = 2
  /\ Keys(records[1]) # Keys(records[2])
  /\ table0 # <<>>

\* The data carries no undefined cell: its records have the same columns.
UniformData(data) ==
  \A j \in 1..Len(data) : \A i \in 1..Len(data[j].v) : data[j].v[i] # Undef

\* How many of the records recs are the mapping m.
CountOf(m, recs) == Cardinality({i \in 1..Len(recs) : recs[i] = m})

ColumnSets(recs) == {Range(Keys(recs[i])) : i \in 1..Len(recs)}

RECURSIVE RequestsNeeded(_, _, _)
RequestsNeeded(colSets, recs, size) ==
  IF colSets = {} THEN 0
  ELSE LET cs == CHOOSE x \in colSets : TRUE
       IN  Ceil(Cardinality({i \in 1..Len(recs) : Range(Keys(recs[i])) = cs}), size)
           + RequestsNeeded(colSets \ {cs}, recs, size)

\* C9: every request updateRecords has sent is an update request of at most
\* chunkSize records that all have the same set of columns, and no record is
\* carried more often than the input holds it; when updateRecords returns,
\* every input record has been carried exactly once and the records of one
\* column set, whatever the order of their properties, have shared their
\* requests: ceil(count / chunkSize) requests per column set.
UniformUpdateRequests ==
  op = "update" =>
    /\ \A n \in 1..Len(sent) :
         /\ sent[n].method = "PATCH"
         /\ sent[n].path = "data"
         /\ UniformData(sent[n].data)
         /\ NumRows(sent[n].data) >= 1
         /\ NumRows(sent[n].data) <= chunkSize
    /\ \A m \in Range(LogRows(sent)) :
         CountOf(m, LogRows(sent)) <= CountOf(m, AsSets(records))
    /\ pc = "done" =>
         /\ \A m \in Range(AsSets(records)) :
              CountOf(m, LogRows(sent)) = CountOf(m, AsSets(records))
         /\ Len(sent) = RequestsNeeded(ColumnSets(records), records, chunkSize)

UniformUpdateRequestsWitness ==
  /\ op = "update"
  /\ pc = "done"
  /\ Len(records) = 3
  /\ chunkSize = 2
  /\ Len(sent) = 2
  /\ Keys(records[1]) # Keys(records[3])
  /\ Range(Keys(records[1])) = Range(Keys(records[3]))
  /\ Range(Keys(records[1])) # Range(Keys(records[2]))

\* ---------------------------------------------------- claims on syncTable
\* The Key of a record: its values in the key columns, null where it has none.
ClaimKey(rec) ==
  [j \in 1..Len(keyColIds) |->
     IF Has(rec, keyColIds[j]) THEN Get(rec, keyColIds[j]) ELSE Null]

\* The Key of a row of the remote table.
RowKey(r) == [j \in 1..Len(keyColIds) |-> r[keyColIds[j]]]

\* The record matches the filter of the call, if the call has one.
PassesFilter(rec) ==
  \A j \in 1..Len(options.filters.cols) :
    \E k \in 1..Len(options.filters.cols[j].v) :
      Get(rec, options.filters.cols[j].c) = options.filters.cols[j].v[k]

\* A source record lacks a key column.
MissingKeyColumn ==
  \E i \in 1..Len(records) : \E j \in 1..Len(keyColIds) :
    ~Has(records[i], keyColIds[j])

\* syncTable has fetched the target and computed its plan.
Planned == op = "sync" /\ nOk >= 1

\* The record's key is that of a fetched target record; Existing is that record.
Matched(rec) == MapHas(gristRows, ClaimKey(rec))

Existing(rec) == MapGet(gristRows, ClaimKey(rec))

\* The columns of the record whose value differs from the existing record's.
Changed(rec) == {c \in Range(Keys(rec)) : Get(rec, c) # Get(Existing(rec), c)}

ExpectedUpdate(rec) ==
  {[c |-> c, v |-> Get(rec, c)] : c \in Changed(rec)}
    \cup {[c |-> "id", v |-> Get(Existing(rec), "id")]}

Indices == [i \in 1..Len(records) |-> i]

\* The source records that are due an update, in input order.
UpdatedIdx ==
  SelectSeq(Indices, LAMBDA i : Matched(records[i]) /\ Changed(records[i]) # {})

\* C3: the updates syncTable enqueues are, in input order, one per source
\* record whose key is that of a fetched target record and whose set C of
\* differing columns is not empty, each holding exactly the columns of C
\* with the source values plus id with the existing record's id; a matched
\* record with C empty gets no update, and no matched record gets an addition.
MinimalUpdates ==
  Planned =>
    /\ AsSets(updateList) =
         [n \in 1..Len(UpdatedIdx) |-> ExpectedUpdate(records[UpdatedIdx[n]])]
    /\ \A n \in 1..Len(updateList) : Len(updateList[n]) = Cardinality(AsSet(updateList[n]))
    /\ \A n \in 1..Len(addList) : ~Matched(addList[n])
    /\ \A i \in 1..Len(records) :
         Matched(records[i]) => records[i] \notin Range(addList)

MinimalUpdatesWitness ==
  /\ Planned
  /\ pc = "done"
  /\ \E i \in 1..Len(records) :
       /\ Matched(records[i])
       /\ Changed(records[i]) = {"B"}
       /\ Has(records[i], "A")
  /\ \E i \in 1..Len(records) : Matched(records[i]) /\ Changed(records[i]) = {}

\* No source record has the key of a fetched target record.
KeysDisjoint == \A i \in 1..Len(records) : ~Matched(records[i])

\* C4 as amended: when no source record has the key of a fetched target
\* record, syncTable enqueues no update and one addition per source record
\* that matches the filter (every source record when there is no filter),
\* each the full source record, in input order; when it returns it has sent
\* no update request and its add requests carry exactly these records.
DisjointKeysAllAdded ==
  (Planned /\ KeysDisjoint) =>
    /\ updateList = <<>>
    /\ addList = SelectSeq(records, PassesFilter)
    /\ pc = "done" =>
         /\ \A n \in 1..Len(sent) : sent[n].method # "PATCH"
         /\ LogRows(Writes(sent)) = AsSets(SelectSeq(records, PassesFilter))

DisjointKeysAllAddedWitness ==
  /\ Planned
  /\ KeysDisjoint
  /\ pc = "done"
  /\ gristRows # <<>>
  /\ options.filters.given
  /\ Len(records) = 2
  /\ Len(addList) = 1

\* C4 as stated, for source records that have every key column: with
\* disjoint keys there are zero updates and exactly len(source) additions,
\* the source records in input order.
DisjointKeysLenSourceAdded ==
  (Planned /\ KeysDisjoint /\ ~MissingKeyColumn) =>
    /\ updateList = <<>>
    /\ Len(addList) = Len(records)
    /\ addList = records

\* C7: syncTable sends no request but fetches, updates and additions of
\* table data; every row the target had before the first call is still
\* there, and those whose key is the key of no source record are unchanged.
NeverDeletes ==
  op = "sync" =>
    /\ \A n \in 1..Len(sent) :
         sent[n].path = "data" /\ sent[n].method \in {"GET", "PATCH", "POST"}
    /\ \A k \in 1..Len(table0) :
         /\ \E m \in 1..Len(table) : table[m].id = table0[k].id
         /\ (\A i \in 1..Len(records) : ClaimKey(records[i]) # RowKey(table0[k]))
              => \E m \in 1..Len(table) : table[m] = table0[k]

NeverDeletesWitness ==
  /\ op = "sync"
  /\ pc = "done"
  /\ Len(table0) = 2
  /\ Len(table) > Len(table0)
  /\ table[1] # table0[1]
  /\ table[2] = table0[2]
  /\ \A i \in 1..Len(records) : ClaimKey(records[i]) # RowKey(table0[2])
  /\ RowKey(table0[2]) # RowKey(table0[1])

\* No two source records that match the filter have the same key.
DistinctSourceKeys ==
  \A i, j \in 1..Len(records) :
    (i < j /\ PassesFilter(records[i]) /\ PassesFilter(records[j]))
      => ClaimKey(records[i]) # ClaimKey(records[j])

\* C1 as amended: when no two source records that match the filter have the
\* same key, a syncTable call that follows a completed call with the same
\* arguments computes an empty plan and sends nothing but its fetch.
RerunIsEmpty ==
  (op = "sync" /\ run >= 2 /\ prev.pc = "done" /\ DistinctSourceKeys) =>
    /\ updateList = <<>>
    /\ addList = <<>>
    /\ \A n \in 1..Len(sent) : sent[n].method = "GET"

RerunIsEmptyWitness ==
  /\ op = "sync"
  /\ run = 2
  /\ prev.pc = "done"
  /\ prev.updateList # <<>>
  /\ prev.addList # <<>>
  /\ DistinctSourceKeys
  /\ pc = "done"

\* C1 as stated, for source records that have every key column: for every
\* list of source records the second call computes an empty plan.
RerunIsEmptyForEveryInput ==
  (op = "sync" /\ run >= 2 /\ prev.pc = "done" /\ ~MissingKeyColumn) =>
    /\ updateList = <<>>
    /\ addList = <<>>
    /\ \A n \in 1..Len(sent) : sent[n].method = "GET"

\* The previous call was aborted by the failure of an update or add request.
PrevAbortedAtWrite == prev.pc = "failed" /\ prev.error = "remote" /\ prev.nOk >= 1

\* The records of the requests of the previous call that the remote applied:
\* all it was answered but the fetch.
PrevApplied == Range(LogRows(SubSeq(prev.sent, 2, prev.nOk)))

Remaining(list) == SelectSeq(list, LAMBDA r : AsSet(r) \notin PrevApplied)

RECURSIVE PatchAll(_, _)
PatchAll(tbl, callData) ==
  IF callData = <<>> THEN tbl
  ELSE PatchAll(RemotePatch(tbl, Head(callData)), Tail(callData))

RECURSIVE PostAll(_, _, _)
PostAll(tbl, firstId, callData) ==
  IF callData = <<>> THEN tbl
  ELSE PostAll(RemotePost(tbl, firstId, Head(callData)),
               firstId + NumRows(Head(callData)), Tail(callData))

\* The target after one call no request of which fails, from the table as it
\* was before the first call.
Uninterrupted ==
  LET plan == SyncPlan(fetchTable(RemoteGet(table0, options.filters)), records,
                       keyColIds, options.filters)
      patched == PatchAll(table0,
                   UpdateCallData(GroupLoop(plan.updateList, <<>>).groups, chunkSize))
  IN  PostAll(patched, Len(table0) + 1, ChunkData(plan.addList, chunkSize))

WithoutIds(tbl) == [i \in 1..Len(tbl) |-> [c \in Range(TableCols) |-> tbl[i][c]]]

\* The rerun of an aborted call enqueues what the aborted call enqueued and
\* did not apply, and ends with the target of an uninterrupted call.
RerunCompletes ==
  /\ Planned =>
       /\ AsSets(updateList) = AsSets(Remaining(prev.updateList))
       /\ addList = Remaining(prev.addList)
  /\ pc = "done" => WithoutIds(table) = WithoutIds(Uninterrupted)

\* C2 as amended: when no two source records that match the filter have the
\* same key, the call that follows a call aborted at an update or add request
\* enqueues exactly the updates and additions the aborted call enqueued and
\* did not apply, and once it returns the target holds the rows, ids left
\* aside, that one uninterrupted call gives from the original target.
RerunIssuesRemaining ==
  (op = "sync" /\ run >= 2 /\ PrevAbortedAtWrite /\ DistinctSourceKeys)
    => RerunCompletes

RerunIssuesRemainingWitness ==
  /\ op = "sync"
  /\ run = 2
  /\ PrevAbortedAtWrite
  /\ DistinctSourceKeys
  /\ prev.nOk = 2
  /\ Len(prev.updateList) = 2
  /\ pc = "done"
  /\ Len(sent) = 2
  /\ table # table0

\* C2 as stated, for source records that have every key column: the same for
\* every list of source records.
RerunIssuesRemainingForEveryInput ==
  (op = "sync" /\ run >= 2 /\ PrevAbortedAtWrite /\ ~MissingKeyColumn)
    => RerunCompletes

\* C6: a syncTable call with a source record that lacks a key column sends
\* no update and no add request, and ends failed with a validation error.
MissingKeyFailsFast ==
  (op = "sync" /\ MissingKeyColumn) =>
    /\ \A n \in 1..Len(sent) : sent[n].method = "GET"
    /\ pc \in {"done", "failed"} => (pc = "failed" /\ error \in {"filterCols", "id"})

\* --------------------------------------------------------- claims on dry-run
\* C11: whatever calls of syncTable, updateRecords, addRecords and
\* deleteRecords a dry-run client has made, the remote table is as it was
\* before the first of them and no request other than a GET has been sent or
\* is in flight; a syncTable call that passes its filter check has still sent
\* its fetch, and nothing else.
DryRunLeavesRemote ==
  dryrun =>
    /\ table = table0
    /\ nextId = Len(table0) + 1
    /\ \A r \in inflight : r.method = "GET"
    /\ \A n \in 1..Len(sent) : sent[n].method = "GET"
    /\ (op = "sync" /\ ~FilterOutsideKeys) =>
         sent = <<Request("GET", "data", options.filters, <<>>)>>
    /\ op \in {"update", "add", "delete"} => sent = <<>>

DryRunLeavesRemoteWitness ==
  /\ dryrun
  /\ run = MaxRuns
  /\ op = "sync"
  /\ pc = "done"
  /\ updateList # <<>>
  /\ addList # <<>>
  /\ table0 # <<>>

\* ------------------------------------------------------ claims on empty input
\* C14: addRecords called with no records has returned an empty list of ids
\* without sending a request, and deleteRecords called with no ids has
\* returned without sending a request; the remote table is as it was.
EmptyInputSendsNothing ==
  /\ (op = "add" /\ records = <<>>) =>
       /\ pc = "done"
       /\ results = <<>>
       /\ sent = <<>>
       /\ inflight = {}
       /\ table = table0
  /\ (op = "delete" /\ recordIds = <<>>) =>
       /\ pc = "done"
       /\ sent = <<>>
       /\ inflight = {}
       /\ table = table0

EmptyInputSendsNothingWitness ==
  /\ ~dryrun
  /\ op = "delete"
  /\ recordIds = <<>>
  /\ pc = "done"
  /\ table # <<>>

\* ------------------------------------------------- claims on request order
\* The requests of the log with the given method.
WithMethod(log, method) == SelectSeq(log, LAMBDA r : r.method = method)

\* C15: the requests of a syncTable call are one GET, then update requests
\* (PATCH), then add requests (POST), never a PATCH after a POST; once an add
\* request is sent every update request of the plan has been sent and
\* answered; at most one request is in flight, it is the last one sent, and
\* every request before it has been answered.
RequestOrdering ==
  op = "sync" =>
    /\ Cardinality(inflight) <= 1
    /\ \A r \in inflight : sent # <<>> /\ r = sent[Len(sent)] /\ nOk = Len(sent) - 1
    /\ (inflight = {} /\ pc = "done") => nOk = Len(sent)
    /\ \A n \in 1..Len(sent) :
         IF n = 1 THEN sent[n].method = "GET" /\ sent[n].path = "data"
         ELSE sent[n].method \in {"PATCH", "POST"} /\ sent[n].path = "data"
    /\ \A m, n \in 1..Len(sent) :
         (m < n /\ sent[m].method = "POST") => sent[n].method = "POST"
    /\ WithMethod(sent, "POST") # <<>> =>
         /\ Len(WithMethod(sent, "PATCH"))
              = RequestsNeeded(ColumnSets(updateList), updateList, chunkSize)
         /\ nOk >= 1 + Len(WithMethod(sent, "PATCH"))

RequestOrderingWitness ==
  /\ op = "sync"
  /\ pc = "done"
  /\ Len(sent) = 3
  /\ sent[2].method = "PATCH"
  /\ sent[3].method = "POST"

\* ---------------------------------------------------------- claims on abort
\* The table after the remote has applied the requests of the log, in order.
RECURSIVE EffectOf(_, _)
EffectOf(tbl, log) ==
  IF log = <<>> THEN tbl
  ELSE LET r == Head(log)
           next == IF r.method = "PATCH" THEN RemotePatch(tbl, r.data)
                   ELSE IF r.method = "POST" /\ r.path = "data"
                     THEN RemotePost(tbl, Len(tbl) + 1, r.data)
                   ELSE IF r.method = "POST" /\ r.path = "apply"
                     THEN RemoteApply(tbl, r.data)
                   ELSE tbl
       IN  EffectOf(next, Tail(log))

\* C16: a call of syncTable, updateRecords, addRecords or deleteRecords, one
\* of whose requests has failed, has thrown; the failed request is the last
\* one it has sent, the requests that remained (the failed one first) are
\* unsent, no addition is sent when an update has failed, and the remote table
\* holds the effects of exactly the requests that were answered before.
AbortWithoutRollback ==
  (pc = "failed" /\ error = "remote") =>
    /\ inflight = {}
    /\ sent # <<>>
    /\ nOk = Len(sent) - 1
    /\ sent[Len(sent)].method # "GET" =>
         /\ queue # <<>>
         /\ sent[Len(sent)].data = Head(queue)
    /\ sent[Len(sent)].method = "PATCH" => WithMethod(sent, "POST") = <<>>
    /\ table = EffectOf(table0, SubSeq(sent, 1, nOk))

AbortWithoutRollbackWitness ==
  /\ pc = "failed"
  /\ error = "remote"
  /\ op = "sync"
  /\ nOk = 2
  /\ sent[2].method = "PATCH"
  /\ sent[3].method = "PATCH"
  /\ table # table0

\* ------------------------------------------------ claims on duplicate keys
\* The source records that match the filter and have the key of records[i].
SameKeyIdx(i) ==
  {j \in 1..Len(records) :
     PassesFilter(records[j]) /\ ClaimKey(records[j]) = ClaimKey(records[i])}

\* Two source records that match the filter have the same key.
DuplicateSourceKeys ==
  \E i \in 1..Len(records) : PassesFilter(records[i]) /\ Cardinality(SameKeyIdx(i)) >= 2

\* The entries of the plan for the key of records[i]: the updates of the
\* fetched record of that key and the additions with that key.
UpdatesOfKey(i) ==
  IF Matched(records[i])
    THEN SelectSeq(updateList,
                   LAMBDA u : Get(u, "id") = Get(Existing(records[i]), "id"))
    ELSE <<>>

AdditionsOfKey(i) ==
  SelectSeq(addList, LAMBDA a : ClaimKey(a) = ClaimKey(records[i]))

\* The rows of the table with the key of records[i].
RowsOfKey(tbl, i) == SelectSeq(tbl, LAMBDA r : RowKey(r) = ClaimKey(records[i]))

\* C17 as amended: source records of the same key are each evaluated against
\* the fetched record of that key and each keeps its own entry of the plan,
\* in input order: per record that differs from the fetched record an update
\* with that record's id, and, when no fetched record has the key, one
\* addition per record, so that the first call ends with one new row per
\* record of that key.
DuplicateSourceKeysAllPlanned ==
  Planned =>
    \A i \in 1..Len(records) :
      (PassesFilter(records[i]) /\ Cardinality(SameKeyIdx(i)) >= 2) =>
        LET same == SelectSeq(Indices, LAMBDA j : j \in SameKeyIdx(i))
            due == SelectSeq(same, LAMBDA j : Matched(records[j])
                                              /\ Changed(records[j]) # {})
        IN  IF Matched(records[i])
              THEN /\ AsSets(UpdatesOfKey(i))
                        = [n \in 1..Len(due) |-> ExpectedUpdate(records[due[n]])]
                   /\ AdditionsOfKey(i) = <<>>
              ELSE /\ AdditionsOfKey(i) = [n \in 1..Len(same) |-> records[same[n]]]
                   /\ (pc = "done" /\ run = 1) =>
                        Len(RowsOfKey(table, i))
                          = Len(RowsOfKey(table0, i)) + Len(same)

DuplicateSourceKeysAllPlannedWitness ==
  /\ Planned
  /\ pc = "done"
  /\ run = 1
  /\ Len(records) = 2
  /\ ClaimKey(records[1]) = ClaimKey(records[2])
  /\ records[1] # records[2]
  /\ Matched(records[1])
  /\ Len(updateList) = 2

\* C17 as stated, for source records that have every key column: of source
\* records of the same key the plan holds a single entry, that of the last
\* of them, and when the call returns a target row of that key carries the
\* values of the last of them.
DuplicateSourceKeysLastWins ==
  (Planned /\ ~MissingKeyColumn) =>
    \A i \in 1..Len(records) :
      (PassesFilter(records[i]) /\ Cardinality(SameKeyIdx(i)) >= 2
         /\ \A j \in SameKeyIdx(i) : j <= i) =>
        /\ Len(UpdatesOfKey(i)) + Len(AdditionsOfKey(i)) <= 1
        /\ \A n \in 1..Len(AdditionsOfKey(i)) : AdditionsOfKey(i)[n] = records[i]
        /\ pc = "done" =>
             \E m \in 1..Len(table) :
               /\ RowKey(table[m]) = ClaimKey(records[i])
               /\ \A c \in Range(Keys(records[i])) : table[m][c] = Get(records[i], c)

\* The row matches the filter of the call, if the call has one.
RowPassesFilter(r) ==
  \A j \in 1..Len(options.filters.cols) :
    \E k \in 1..Len(options.filters.cols[j].v) :
      r[options.filters.cols[j].c] = options.filters.cols[j].v[k]

\* The target records the first call fetches that have the key of records[i],
\* in fetch order.
TargetsOfKey(i) ==
  SelectSeq(table0, LAMBDA r : RowPassesFilter(r) /\ RowKey(r) = ClaimKey(records[i]))

LastOfKey(i) == TargetsOfKey(i)[Len(TargetsOfKey(i))]

\* The update of records[i] against the last fetched record of its key.
DiffWithLast(i) ==
  {c \in Range(Keys(records[i])) : Get(records[i], c) # LastOfKey(i)[c]}

UpdateAgainstLast(i) ==
  {[c |-> c, v |-> Get(records[i], c)] : c \in DiffWithLast(i)}
    \cup {[c |-> "id", v |-> LastOfKey(i).id]}

\* C18: when several fetched target records have the key of a source record,
\* the updates with the id of the last of them in fetch order are, in input
\* order, those of the source records of that key that differ from it, each
\* holding the columns that differ from it; no update has the id of an
\* earlier one, no source record of that key is added, and the earlier ones
\* are in the target unchanged when the call returns.
DuplicateTargetKeysLastWins ==
  (Planned /\ run = 1) =>
    \A i \in 1..Len(records) :
      (PassesFilter(records[i]) /\ Len(TargetsOfKey(i)) >= 2) =>
        LET same == SelectSeq(Indices, LAMBDA j : j \in SameKeyIdx(i))
            due == SelectSeq(same, LAMBDA j : DiffWithLast(j) # {})
            earlier == SubSeq(TargetsOfKey(i), 1, Len(TargetsOfKey(i)) - 1)
        IN  /\ AsSets(SelectSeq(updateList,
                                LAMBDA u : Get(u, "id") = LastOfKey(i).id))
                 = [n \in 1..Len(due) |-> UpdateAgainstLast(due[n])]
            /\ \A n \in 1..Len(updateList) : \A m \in 1..Len(earlier) :
                 Get(updateList[n], "id") # earlier[m].id
            /\ records[i] \notin Range(addList)
            /\ pc = "done" => \A m \in 1..Len(earlier) : earlier[m] \in Range(table)

DuplicateTargetKeysLastWinsWitness ==
  /\ Planned
  /\ run = 1
  /\ pc = "done"
  /\ Len(table0) = 2
  /\ table0[1].A # table0[2].A
  /\ \E i \in 1..Len(records) :
       /\ PassesFilter(records[i])
       /\ Len(TargetsOfKey(i)) = 2
       /\ Has(records[i], "A")
       /\ Get(records[i], "A") = table0[1].A
       /\ DiffWithLast(i) = {"A"}
  /\ table[2] # table0[2]

\* ------------------------------------------------------ claims on the filter
\* The records of a request body, a column a record lacks read as undefined.
BodyRecords(data) == [i \in 1..NumRows(data) |-> RowOf(data, i)]

StructuredErrorResponses ==
  h.pc = "failed" =>
    /\ h.response.by = "handler"
    /\ h.response.body = "error"

\* The source invoice of the request, and its items in the source document.
TheSourceInvoice ==
  srcDoc.Invoices[CHOOSE i \in 1..Len(srcDoc.Invoices) :
                    srcDoc.Invoices[i].Invoice_ID = h.invoiceId]

TheSourceItems ==
  SelectSeq(srcDoc.Items, LAMBDA r : r.Invoice = TheSourceInvoice.id)

\* The id of the destination invoice: of the first row with the Invoice_ID.
TheDestId ==
  destDoc.Invoices[CHOOSE i \in 1..Len(destDoc.Invoices) :
                     /\ destDoc.Invoices[i].Invoice_ID = h.invoiceId
                     /\ \A j \in 1..(i - 1) :
                          destDoc.Invoices[j].Invoice_ID # h.invoiceId].id

\* The description is that of an item of the source invoice.
InSource(d) == \E i \in 1..Len(TheSourceItems) : TheSourceItems[i].Description = d

\* The ids, in table order, of the items of the destination invoice that the
\* destination had before the request and whose description is not in the
\* source: syncTable leaves them as they are.
GoneIds ==
  LET gone == SelectSeq(destDoc0.Items,
                        LAMBDA r : r.Invoice = TheDestId /\ ~InSource(r.Description))
  IN  [i \in 1..Len(gone) |-> gone[i].id]

\* The bulk removals the handler has sent.
Removals == SelectSeq(h.sent, LAMBDA r : r.path = "apply")

\* C13: when onSync has answered with the id, every destination item of the
\* destination invoice has the description of an item of the source invoice,
\* every item of the source invoice has its description in a destination item
\* of the destination invoice, and the handler has sent one bulk removal, to
\* the destination's Items, with exactly the ids of the items of that invoice
\* whose description is not in the source, or none if there is no such item.
DeletionFollowUp ==
  (h.op = "sync" /\ h.pc = "done") =>
    /\ \A i \in 1..Len(destDoc.Items) :
         destDoc.Items[i].Invoice = TheDestId => InSource(destDoc.Items[i].Description)
    /\ \A i \in 1..Len(TheSourceItems) :
         \E j \in 1..Len(destDoc.Items) :
           /\ destDoc.Items[j].Invoice = TheDestId
           /\ destDoc.Items[j].Description = TheSourceItems[i].Description
    /\ Len(Removals) = IF GoneIds = <<>> THEN 0 ELSE 1
    /\ \A n \in 1..Len(Removals) :
         /\ Removals[n].doc = "dest"
         /\ Removals[n].table = "Items"
         /\ Removals[n].method = "POST"
         /\ Removals[n].data = <<[c |-> "BulkRemoveRecord", v |-> GoneIds]>>
    /\ h.response = [by |-> "handler", status |-> 200, body |-> "id"]

DeletionFollowUpWitness ==
  /\ h.op = "sync"
  /\ h.pc = "done"
  /\ Len(Removals) = 1
  /\ h.updateList # <<>>
  /\ Len(destDoc0.Items) = 2
  /\ Len(destDoc.Items) = 1

\* C20: once onSync has called syncTable for the Items, the filters of that
\* call are {Invoice: [destInvoice.id]}, and the fetch of that call asks the
\* destination for the items that match them.
ItemsSyncFiltered ==
  (h.op = "sync" /\ h.tbl = "Items") =>
    LET filters == Filters(<<[c |-> "Invoice", v |-> <<Get(h.destInvoice, "id")>>]>>)
        fetches == SelectSeq(h.sent, LAMBDA r :
                     r.doc = "dest" /\ r.table = "Items" /\ r.method = "GET")
    IN  /\ h.filters = filters
        /\ fetches # <<>> => fetches[1].query = filters

\* ------------------------------------------------- claims on onSync's frame
\* The requests the handler has sent to the source document that change it.
SourceWrites == SelectSeq(h.sent, LAMBDA r : r.doc = "src" /\ r.method # "GET")

\* The row is in the table as it is: not updated and not deleted.
Untouched(r, tbl) == \E i \in 1..Len(tbl) : tbl[i] = r

\* C23: at every step of onSync for the invoice X the handler has sent no
\* request other than a GET to the source document, every destination
\* Invoices row whose Invoice_ID is not X is as it was before the request, and
\* so is every destination Items row whose Invoice is not the id of the
\* destination invoice (every Items row, while the handler has not yet got
\* the destination invoice).
OnSyncFrame ==
  h.op = "sync" =>
    /\ SourceWrites = <<>>
    /\ \A i \in 1..Len(destDoc0.Invoices) :
         destDoc0.Invoices[i].Invoice_ID # h.invoiceId =>
           Untouched(destDoc0.Invoices[i], destDoc.Invoices)
    /\ \A i \in 1..Len(destDoc0.Items) :
         (h.destInvoice = <<>> \/ destDoc0.Items[i].Invoice # Get(h.destInvoice, "id")) =>
           Untouched(destDoc0.Items[i], destDoc.Items)

OnSyncFrameWitness ==
  /\ h.op = "sync"
  /\ h.pc = "done"
  /\ Removals # <<>>
  /\ destDoc.Invoices # destDoc0.Invoices
  /\ \E i \in 1..Len(destDoc0.Invoices) : destDoc0.Invoices[i].Invoice_ID # h.invoiceId
  /\ \E i \in 1..Len(destDoc0.Items) :
       destDoc0.Items[i].Invoice # Get(h.destInvoice, "id")

\* ------------------------------------------- claims on the destination invoice
\* The ids of the destination Invoices rows the handler's syncTable has
\* written: of the rows its update requests address and of the rows its add
\* requests have made.
InvoiceIdsWritten(hh) ==
  LET patches == SelectSeq(hh.sent, LAMBDA r :
                   r.doc = "dest" /\ r.table = "Invoices" /\ r.method = "PATCH")
  IN  UNION {Range(Get(patches[n].data, "id")) : n \in 1..Len(patches)}
      \cup Range(hh.results.Invoices)

\* C22: once onSync has looked the destination invoice up, the row its
\* syncTable has updated or added is the row it has looked up, whose id it
\* attaches to the items and returns.
SingleDestinationRow ==
  \A hh \in {h, other} :
    (hh.op = "sync" /\ hh.destInvoice # <<>>) =>
      InvoiceIdsWritten(hh) \subseteq {Get(hh.destInvoice, "id")}

\* ------------------------------------------------ claims on overlapping syncs
\* fetchTable(tbl, {c: [val]}) answered from the table as it is.
FetchWhere(cols, tbl, c, val) ==
  Fetched(cols, tbl, [query |-> Filters(<<[c |-> c, v |-> <<val>>]>>)])

RECURSIVE PostAllIn(_, _, _, _)
PostAllIn(cols, tbl, firstId, callData) ==
  IF callData = <<>> THEN tbl
  ELSE PostAllIn(cols, RemotePostIn(cols, tbl, firstId, Head(callData)),
                 firstId + NumRows(Head(callData)), Tail(callData))

RECURSIVE ApplyAll(_, _)
ApplyAll(tbl, callData) ==
  IF callData = <<>> THEN tbl
  ELSE ApplyAll(RemoteApply(tbl, Head(callData)), Tail(callData))

\* A destination document with the ids it gives next, d = [doc, nextId], after
\* syncTable(tbl, recs, keys, opts) with no request of another client between
\* its requests.
SyncedTable(d, tbl, recs, keys, opts) ==
  LET filters == OptionsFilters(opts)
      plan == SyncPlan(Fetched(DestCols(tbl), d.doc[tbl], [query |-> filters]),
                       recs, keys, filters)
      patched == PatchAll(d.doc[tbl],
                          UpdateCallData(GroupLoop(plan.updateList, <<>>).groups, chunkSize))
  IN  [doc |-> [d.doc EXCEPT ![tbl] =
                  PostAllIn(DestCols(tbl), patched, d.nextId[tbl],
                            ChunkData(plan.addList, chunkSize))],
       nextId |-> [d.nextId EXCEPT ![tbl] = @ + Len(plan.addList)]]

\* The destination after onSync for the invoice id p has run alone on d,
\* from its first step to its last, no request failing.
SyncedAlone(d, p) ==
  LET found == FetchWhere(SrcInvoiceCols, srcDoc.Invoices, "Invoice_ID", p)
      sourceItems == FetchWhere(ItemCols, srcDoc.Items, "Invoice", Get(found[1], "id"))
      destDocId == Get(found[1], "InvoicerDocId")
      invoiceCopy == SetProp(Pick(found[1], <<"Invoice_ID", "Date", "CustomerJson">>),
                             "Last_Sync", Num(now))
      d1 == SyncedTable(d, "Invoices", <<invoiceCopy>>, <<"Invoice_ID">>, <<>>)
      destInvoice == FetchWhere(DestInvoiceCols, d1.doc.Invoices, "Invoice_ID", p)
      itemsCopy == ItemsCopy(sourceItems, destInvoice[1])
      d2 == SyncedTable(d1, "Items", itemsCopy, <<"Invoice", "Description">>,
                        <<[c |-> "Invoice", v |-> <<Get(destInvoice[1], "id")>>]>>)
      gone == DestItemsToDelete(FetchWhere(ItemCols, d2.doc.Items, "Invoice",
                                           Get(destInvoice[1], "id")), itemsCopy)
      ids == [i \in 1..Len(gone) |-> Get(gone[i], "id")]
  IN  IF ~Truthy(p) \/ found = <<>> THEN d
      ELSE IF ~Truthy(destDocId) \/ TypeOf(destDocId) # "string" THEN d
      ELSE IF destInvoice = <<>> THEN d1
      ELSE [d2 EXCEPT !.doc.Items = ApplyAll(@, DeleteCallData(ids, chunkSize))]

\* The destination before the first request, with the ids it gives next.
Dest0 ==
  [doc |-> destDoc0,
   nextId |-> [Invoices |-> Len(destDoc0.Invoices) + 1, Items |-> Len(destDoc0.Items) + 1]]

\* The id was given before the first request.
OldId(tbl, id) == id.v <= Len(destDoc0[tbl])

\* The rows as a bag: each row with the number of times it occurs.
AsBag(rows) ==
  {<<r, Cardinality({i \in 1..Len(rows) : rows[i] = r})>> : r \in Range(rows)}

\* The rows of a destination document without the ids given since the first
\* request and without Last_Sync: a row made since has no id, and a reference
\* to an Invoices row made since is the Invoice_ID of that row.
Canonical(doc) ==
  LET InvoiceRef(ref) ==
        LET made == {i \in 1..Len(doc.Invoices) :
                       doc.Invoices[i].id = ref /\ ~OldId("Invoices", ref)}
        IN  IF made = {} THEN [old |-> ref]
            ELSE [made |-> doc.Invoices[CHOOSE i \in made : TRUE].Invoice_ID]
  IN  [Invoices |->
         AsBag([i \in 1..Len(doc.Invoices) |->
                  [id |-> IF OldId("Invoices", doc.Invoices[i].id)
                            THEN doc.Invoices[i].id ELSE Null,
                   Invoice_ID |-> doc.Invoices[i].Invoice_ID,
                   Date |-> doc.Invoices[i].Date,
                   CustomerJson |-> doc.Invoices[i].CustomerJson]]),
       Items |->
         AsBag([i \in 1..Len(doc.Items) |->
                  [id |-> IF OldId("Items", doc.Items[i].id)
                            THEN doc.Items[i].id ELSE Null,
                   Invoice |-> InvoiceRef(doc.Items[i].Invoice),
                   Description |-> doc.Items[i].Description,
                   Unit_Price |-> doc.Items[i].Unit_Price,
                   Quantity |-> doc.Items[i].Quantity]])]

\* The handler of a sync has answered, or has thrown.
Finished(hh) == hh.op = "sync" /\ hh.pc \in {"done", "failed"}

\* C21: when two onSync handlers for different invoice ids have both ended,
\* however their requests were interleaved, the destination holds, ids given
\* since the first request and Last_Sync apart, the Invoices and Items rows it
\* holds after the two have run one after the other, in one order or the other.
ConcurrentSyncsIndependent ==
  (Finished(h) /\ Finished(other) /\ h.invoiceId # other.invoiceId) =>
    Canonical(destDoc) \in
      {Canonical(SyncedAlone(SyncedAlone(Dest0, h.invoiceId), other.invoiceId).doc),
       Canonical(SyncedAlone(SyncedAlone(Dest0, other.invoiceId), h.invoiceId).doc)}

\* Both have ended with an answer; one added its invoice first and its items
\* last, so their requests were interleaved.
ConcurrentSyncsIndependentWitness ==
  /\ Finished(h) /\ Finished(other)
  /\ h.pc = "done" /\ other.pc = "done"
  /\ h.invoiceId # other.invoiceId
  /\ h.results.Invoices # <<>> /\ other.results.Invoices # <<>>
  /\ h.results.Items # <<>> /\ other.results.Items # <<>>
  /\ h.results.Invoices[1].v < other.results.Invoices[1].v
  /\ h.results.Items[1].v > other.results.Items[1].v

\* ------------------------------------------------------ claims on the widget
\* C24: whenever data.copy is not null, invoiceRow holds an invoice,
\* data.invoice shows that invoice and data.copy is the copy info the server
\* gives for it; and a document url and name in data.invoice are those the
\* server gives for the invoice data.invoice shows.
NoStaleCopyInfo ==
  /\ w.copy # <<>> =>
       /\ w.invoiceRow # <<>>
       /\ Get(w.invoice, "id") = Get(w.invoiceRow, "Invoice_ID")
       /\ w.copy = CopyOf(InfoBody(Get(w.invoiceRow, "Invoice_ID")))
  /\ (w.invoice # <<>> /\ Has(w.invoice, "docUrl")) =>
       /\ Get(w.invoice, "docUrl") = Get(InfoBody(Get(w.invoice, "id")), "DocUrl")
       /\ Get(w.invoice, "docName") = Get(InfoBody(Get(w.invoice, "id")), "DocName")

====
